---- MODULE Spec2Model ----
(***************************************************************************)
(* State-machine model of the news monitor bot: SmartCache and the channel *)
(* fetcher (parser.py), the relevance analyzer, the check cycle and the    *)
(* delivery queue (bot.py), and the sent_news table (database.py).         *)
(*                                                                         *)
(* Conventions                                                             *)
(*   - Python None in an optional field is the empty tuple <<>>, a present *)
(*     value v is <<v>>.                                                   *)
(*   - A text is a sequence of one-character strings.                      *)
(*   - A score is an integer number of hundredths (2.0 is 200).            *)
(*   - Time is an integer clock `now`; every state of the model is a state *)
(*     in which all coroutines are suspended at an await, the clock only   *)
(*     advances between such states.                                       *)
(*   - An HTML page is a sequence of tokens; the empty document "" is      *)
(*     <<>>; soup.find_all(..., class_='tgme_widget_message') selects the  *)
(*     tokens of kind "msg".                                               *)
(***************************************************************************)
EXTENDS Integers, Sequences, FiniteSets, TLC

VARIABLES
    now,          \* datetime.now()
    cache,        \* SmartCache.cache: entries in dict (insertion) order
    ttl,          \* SmartCache.ttl
    max_size,     \* SmartCache.max_size
    pend,         \* a fetch_channel call that awaits fetch_with_retry, or None
    cres,         \* history: what the last cache or fetch_channel call returned
    sent_news,    \* table sent_news
    queue,        \* NewsQueueManager.queue
    processing,   \* NewsQueueManager.processing
    stats,        \* NewsQueueManager.stats (sent, failed)
    qpc,          \* await at which process_queue is suspended
    batch,        \* process_queue: batch being sent
    bi,           \* _send_batch: index of the current item in batch
    sent_count,   \* _send_batch: sent_count
    batch_size,   \* process_queue: argument batch_size
    cyc,          \* per handler task: state of one cmd_check_news call
    ev,           \* history: what the last step did
    okSends,      \* history: successful transport sends per <<user, hash>>
    failSends,    \* history: transport sends that raised, per <<user, hash>>
    markCalls,    \* history: mark_news_sent calls per <<user, hash>>
    lastAttempt,  \* history: per add_news_batch call, score of its last send
    tags,         \* history: number of add_news_batch calls so far
    fw,           \* one fetch_with_retry call: where it is, its requests so far
    arg,          \* the arguments of one call of a function without effects
    ret,          \* what that call returned, None before it is made
    chan_table,   \* table user_channels: rows in the order of added_at
    chk,          \* one cmd_check_news call over the result of get_channels
    utc_offset    \* the host: datetime.now() minus the clock of UTC

vars == <<now, cache, ttl, max_size, pend, cres, sent_news, queue, processing,
          stats, qpc, batch, bi, sent_count, batch_size, cyc, ev, okSends,
          failSends, markCalls, lastAttempt, tags, fw, arg, ret, chan_table,
          chk, utc_offset>>

\* the variables of the parser and those of the queue manager and the table
parserVars == <<cache, ttl, max_size, pend, cres>>
queueVars == <<sent_news, queue, processing, stats, qpc, batch, bi, sent_count,
               batch_size, okSends, failSends, markCalls, lastAttempt, tags>>
chanVars == <<chan_table, chk>>
auxVars == <<fw, arg, ret, chanVars, utc_offset>>

-----------------------------------------------------------------------------
(* Bounds of the model *)

MaxTime == 1        \* the clock of the bot stops here
MaxCycles == 2      \* cmd_check_news calls per behaviour
MaxBatchSize == 2   \* process_queue is started with batch_size up to this
MaxAdds == 2        \* add_news_batch calls per behaviour of the queue alone
MaxClock == 3       \* the clock of the cache alone stops here
MaxTtl == 2         \* the cache alone is built with ttl in 1..MaxTtl
MaxSize == 2        \* the cache alone is built with max_size in 1..MaxSize
cache_ttl == 1      \* EnhancedTelegramParser(cache_ttl=300), in clock units
hours == 1          \* get_fresh_messages(hours=24), in clock units
MaxWidgets == 3     \* tokens of a page handed to the extractor alone
SmallLimit == 2     \* a limit below MaxWidgets, next to the cycle's limit
MaxTextLen == 4     \* longest text enumerated for the analyzer alone

NoValue == <<>>
Some(v) == <<v>>
IsNone(x) == x = <<>>
Val(x) == x[1]

Max(a, b) == IF a >= b THEN a ELSE b
Min(a, b) == IF a <= b THEN a ELSE b

Take(s, n) == SubSeq(s, 1, Min(n, Len(s)))

\* Python's `needle in hay` for strings
Contains(hay, needle) ==
    \E i \in 0..(Len(hay) - Len(needle)) :
        SubSeq(hay, i + 1, i + Len(needle)) = needle

\* Subsequence of the elements that satisfy Keep, in order
RECURSIVE SelectIdx(_, _, _)
SelectIdx(s, keep, i) ==
    IF i > Len(s) THEN <<>>
    ELSE (IF i \in keep THEN <<s[i]>> ELSE <<>>) \o SelectIdx(s, keep, i + 1)

\* sorted(s, key=..., reverse=True): stable, descending by keys[i]
SortDesc(s, keys) ==
    LET n == Len(s)
        pos(i) == 1 + Cardinality({j \in 1..n :
                        keys[j] > keys[i] \/ (keys[j] = keys[i] /\ j < i)})
    IN [p \in 1..n |-> s[CHOOSE i \in 1..n : pos(i) = p]]

-----------------------------------------------------------------------------
(* SmartCache (parser.py) *)

KeyIdx(c, key) == {i \in 1..Len(c) : c[i].key = key}
HasKey(c, key) == KeyIdx(c, key) # {}
EntryOf(c, key) == c[CHOOSE i \in KeyIdx(c, key) : TRUE]
DelKey(c, key) == SelectIdx(c, {i \in 1..Len(c) : c[i].key # key}, 1)

\* `now - timestamp < timedelta(seconds=ttl)`
\* variant: no expiry
NeverExpires(entry, t) == entry.timestamp <= t

Unexpired(entry, t) == t - entry.timestamp < ttl

\* variant: a hit refreshes the entry's timestamp (least recently used)
SmartCache_get_refreshing(c, key, t) ==
    IF HasKey(c, key)
    THEN IF Unexpired(EntryOf(c, key), t)
         THEN [cache |-> [i \in 1..Len(c) |->
                             IF c[i].key = key
                             THEN [c[i] EXCEPT !.timestamp = t] ELSE c[i]],
               hit |-> TRUE, data |-> EntryOf(c, key).data]
         ELSE [cache |-> DelKey(c, key), hit |-> FALSE, data |-> NoValue]
    ELSE [cache |-> c, hit |-> FALSE, data |-> NoValue]

\* SmartCache.get: the cache after the call, and what is returned
SmartCache_get(c, key, t) ==
    IF HasKey(c, key)
    THEN IF Unexpired(EntryOf(c, key), t)
         THEN [cache |-> c, hit |-> TRUE, data |-> EntryOf(c, key).data]
         ELSE [cache |-> DelKey(c, key), hit |-> FALSE, data |-> NoValue]
    ELSE [cache |-> c, hit |-> FALSE, data |-> NoValue]

\* min(self.cache.keys(), key=timestamp): first minimum in dict order
OldestKey(c) ==
    c[CHOOSE i \in 1..Len(c) :
        /\ \A j \in 1..Len(c) : c[i].timestamp <= c[j].timestamp
        /\ \A j \in 1..(i - 1) : c[j].timestamp > c[i].timestamp].key

\* self.cache[key] = {...}: an existing key keeps its place in the dict
PutEntry(c, key, data, t) ==
    LET e == [key |-> key, data |-> data, timestamp |-> t]
    IN IF HasKey(c, key)
       THEN [i \in 1..Len(c) |-> IF c[i].key = key THEN e ELSE c[i]]
       ELSE Append(c, e)

\* variant: no eviction
SmartCache_set_unbounded(c, key, data, t) == PutEntry(c, key, data, t)

SmartCache_set(c, key, data, t) ==
    LET c1 == IF Len(c) >= max_size THEN DelKey(c, OldestKey(c)) ELSE c
    IN PutEntry(c1, key, data, t)

-----------------------------------------------------------------------------
(* RelevanceAnalyzer.analyze_message (bot.py) *)

\* str.lower() on the characters the model uses
Lower(ch) ==
    CASE ch = "A" -> "a"
      [] ch = "I" -> "i"
      [] OTHER -> ch

LowerText(t) == [i \in 1..Len(t) |-> Lower(t[i])]

\* character class [a-zA-Z0-9] (and the Cyrillic letters) of the pattern
IsAlnum(ch) ==
    ch \in {"a", "b", "c", "d", "e", "f", "g", "h", "i", "j", "k", "l", "m",
            "n", "o", "p", "q", "r", "s", "t", "u", "v", "w", "x", "y", "z",
            "A", "I",
            "0", "1", "2", "3", "4", "5", "6", "7", "8", "9"}

\* re.search('[^alnum]' + re.escape(kw) + '[^alnum]', text)
BoundaryMatch(tl, kw) ==
    \E i \in 1..(Len(tl) - Len(kw) - 1) :
        /\ ~IsAlnum(tl[i])
        /\ SubSeq(tl, i + 1, i + Len(kw)) = kw
        /\ ~IsAlnum(tl[i + Len(kw) + 1])

\* variant: one non-alphanumeric neighbour is enough for the 1.5 mode
KeywordScoreOneSided(tl, keyword, weight) ==
    LET kw == LowerText(keyword)
        n == Len(kw)
    IN IF Contains(tl, <<" ">> \o kw \o <<" ">>) THEN weight * 20
       ELSE IF Contains(tl, kw)
            THEN IF \E i \in 1..(Len(tl) - n - 1) :
                        /\ SubSeq(tl, i + 1, i + n) = kw
                        /\ ~IsAlnum(tl[i]) \/ ~IsAlnum(tl[i + n + 1])
                 THEN weight * 15 ELSE weight * 10
            ELSE 0

\* one positive keyword; weights are in tenths, scores in hundredths
KeywordScore(tl, keyword, weight) ==
    LET kw == LowerText(keyword)
    IN IF Contains(tl, <<" ">> \o kw \o <<" ">>) THEN weight * 20
       ELSE IF Contains(tl, kw)
            THEN IF BoundaryMatch(tl, kw) THEN weight * 15 ELSE weight * 10
            ELSE 0

NegativeScore(tl, neg_keyword) ==
    LET kw == LowerText(neg_keyword)
    IN IF Contains(tl, <<" ">> \o kw \o <<" ">>) THEN 300
       ELSE IF Contains(tl, kw) THEN 150
       ELSE 0

RECURSIVE SumSeq(_)
SumSeq(s) == IF s = <<>> THEN 0 ELSE Head(s) + SumSeq(Tail(s))

analyze_message(text, weighted_keywords, negative_keywords) ==
    LET tl == <<" ">> \o LowerText(text) \o <<" ">>
        scores == [i \in 1..Len(weighted_keywords) |->
                      KeywordScore(tl, weighted_keywords[i].keyword,
                                   weighted_keywords[i].weight)]
        found_keywords ==
            SelectIdx([i \in 1..Len(weighted_keywords) |->
                          [keyword |-> weighted_keywords[i].keyword,
                           weight |-> weighted_keywords[i].weight,
                           score |-> scores[i]]],
                      {i \in 1..Len(weighted_keywords) : scores[i] > 0}, 1)
        total_score == SumSeq(scores)
        negs == [i \in 1..Len(negative_keywords) |->
                    NegativeScore(tl, negative_keywords[i])]
        negative_score == SumSeq(negs)
        found_negative ==
            SelectIdx(negative_keywords,
                      {i \in 1..Len(negative_keywords) : negs[i] > 0}, 1)
        final_score == Max(0, total_score - negative_score)
    IN [relevant |-> final_score > 50,
        score |-> final_score,
        total_score |-> total_score,
        negative_score |-> negative_score,
        found_keywords |-> found_keywords,
        found_negative |-> found_negative,
        has_negative |-> negative_score > 0]

-----------------------------------------------------------------------------
(* RelevanceAnalyzer.parse_weighted_keywords (bot.py) *)

MaxFrac == 2        \* fractional digits a written weight may have

\* a Python float: a finite number in units of 10^-MaxFrac, an infinity, or
\* nan
Num(v) == [kind |-> "num", v |-> v]
Inf(sign) == [kind |-> "inf", v |-> sign]
NaN == [kind |-> "nan", v |-> 0]

\* a < b on floats; every comparison with nan is false
FloatLess(a, b) ==
    CASE a.kind = "nan" \/ b.kind = "nan" -> FALSE
      [] a.kind = "inf" -> a.v < 0 /\ ~(b.kind = "inf" /\ b.v < 0)
      [] b.kind = "inf" -> b.v > 0
      [] OTHER -> a.v < b.v

\* min(a, b) and max(a, b) of Python: the first argument unless the second
\* is smaller (greater)
PyMin(a, b) == IF FloatLess(b, a) THEN b ELSE a
PyMax(a, b) == IF FloatLess(a, b) THEN b ELSE a

\* str.strip(): leading and trailing whitespace removed
IsSpace(ch) == ch \in {" ", "\n"}
RECURSIVE LStrip(_)
LStrip(s) == IF s # <<>> /\ IsSpace(Head(s)) THEN LStrip(Tail(s)) ELSE s
RECURSIVE RStrip(_)
RStrip(s) ==
    IF s # <<>> /\ IsSpace(s[Len(s)]) THEN RStrip(SubSeq(s, 1, Len(s) - 1))
    ELSE s
Strip(s) == RStrip(LStrip(s))

\* str.split(sep) for a separator of one character
RECURSIVE SplitFrom(_, _, _)
SplitFrom(s, sep, cur) ==
    IF s = <<>> THEN <<cur>>
    ELSE IF Head(s) = sep THEN <<cur>> \o SplitFrom(Tail(s), sep, <<>>)
    ELSE SplitFrom(Tail(s), sep, Append(cur, Head(s)))
Split(s, sep) == SplitFrom(s, sep, <<>>)

IsDigit(ch) == ch \in {"0", "1", "2", "3", "4", "5", "6", "7", "8", "9"}
DigitVal(ch) ==
    CHOOSE d \in 0..9 :
        <<"0", "1", "2", "3", "4", "5", "6", "7", "8", "9">>[d + 1] = ch
AllDigits(s) == \A i \in 1..Len(s) : IsDigit(s[i])
\* the number written by the digits s, 0 for no digit
RECURSIVE Decimal(_)
Decimal(s) ==
    IF s = <<>> THEN 0
    ELSE 10 * Decimal(SubSeq(s, 1, Len(s) - 1)) + DigitVal(s[Len(s)])
RECURSIVE Pow10(_)
Pow10(n) == IF n = 0 THEN 1 ELSE 10 * Pow10(n - 1)

\* float(s) on an unsigned literal: digits with at most one point and at
\* least one digit, or inf, infinity, nan; None is ValueError. The value is
\* exact for up to MaxFrac fractional digits.
UnsignedFloat(s) ==
    LET l == LowerText(s)
        p == Split(s, ".")
    IN CASE l = <<"n", "a", "n">> -> Some(NaN)
         [] l \in {<<"i", "n", "f">>,
                   <<"i", "n", "f", "i", "n", "i", "t", "y">>} -> Some(Inf(1))
         [] Len(p) = 1 /\ p[1] # <<>> /\ AllDigits(p[1]) ->
                Some(Num(Decimal(p[1]) * Pow10(MaxFrac)))
         [] Len(p) = 2 /\ p[1] \o p[2] # <<>> /\ AllDigits(p[1] \o p[2]) ->
                Some(Num(Decimal(p[1]) * Pow10(MaxFrac)
                         + Decimal(Take(p[2] \o [i \in 1..MaxFrac |-> "0"],
                                        MaxFrac))))
         [] OTHER -> NoValue

Negate(f) == IF f.kind = "nan" THEN f ELSE [f EXCEPT !.v = -f.v]

\* float(s): surrounding whitespace and one sign are allowed
PyFloat(s) ==
    LET t == Strip(s)
        signed == t # <<>> /\ Head(t) \in {"+", "-"}
        u == UnsignedFloat(IF signed THEN Tail(t) ELSE t)
    IN IF IsNone(u) THEN NoValue
       ELSE IF signed /\ Head(t) = "-" THEN Some(Negate(Val(u)))
       ELSE u

\* the float with the given number of tenths: Tenths(10) is 1.0
Tenths(n) == Num(n * Pow10(MaxFrac - 1))

\* variant: the weight is taken as written
clamp_none(weight) == weight

\* max(0.1, min(weight, 5.0))
clamp(weight) == PyMax(Tenths(1), PyMin(weight, Tenths(50)))

\* the pairs one item of the input contributes
parse_item(raw) ==
    LET item == Strip(raw)
        parts == Split(item, ":")
    IN IF item = <<>> THEN <<>>
       ELSE IF Contains(item, <<":">>)
       THEN IF Len(parts) = 2
            THEN LET keyword == Strip(parts[1])
                     weight == PyFloat(Strip(parts[2]))
                 IN IF IsNone(weight) THEN << <<keyword, Tenths(10)>> >>
                    ELSE << <<keyword, clamp(Val(weight))>> >>
            ELSE <<>>
       ELSE << <<item, Tenths(10)>> >>

RECURSIVE ConcatItems(_)
ConcatItems(items) ==
    IF items = <<>> THEN <<>>
    ELSE parse_item(Head(items)) \o ConcatItems(Tail(items))

parse_weighted_keywords(keywords_input) ==
    ConcatItems(Split(keywords_input, ","))

-----------------------------------------------------------------------------
(* Database: table sent_news (database.py) *)

Digit(d) == <<"0", "1", "2", "3", "4", "5", "6", "7", "8", "9">>[d + 1]

RECURSIVE Str(_)
Str(n) == IF n < 10 THEN <<Digit(n)>> ELSE Str(n \div 10) \o <<Digit(n % 10)>>

\* variant: the text is hashed whether or not there is a message id
generate_news_hash_by_text(text, channel, message_id) ==
    channel \o <<":">> \o Take(text, 500)

\* the string that is hashed; md5 is taken to be injective on these
generate_news_hash(text, channel, message_id) ==
    IF ~IsNone(message_id) /\ Val(message_id) # 0
    THEN channel \o <<":">> \o Str(Val(message_id))
    ELSE channel \o <<":">> \o Take(text, 500)

\* variant: a record of any subscriber counts
is_news_sent_any_user(db, user_id, news_hash) ==
    \E r \in db : r.news_hash = news_hash

is_news_sent(db, user_id, news_hash) ==
    \E r \in db : r.user_id = user_id /\ r.news_hash = news_hash

\* variant: INSERT OR REPLACE
mark_news_sent_replace(db, user_id, news_hash, channel, message_id, t) ==
    {r \in db : ~(r.news_hash = news_hash /\ r.user_id = user_id)}
       \cup {[news_hash |-> news_hash, user_id |-> user_id,
               channel_username |-> channel, message_id |-> message_id,
               sent_at |-> t]}

\* INSERT OR IGNORE under PRIMARY KEY (news_hash, user_id)
mark_news_sent(db, user_id, news_hash, channel, message_id, t) ==
    IF \E r \in db : r.news_hash = news_hash /\ r.user_id = user_id
    THEN db
    ELSE db \cup {[news_hash |-> news_hash, user_id |-> user_id,
                   channel_username |-> channel, message_id |-> message_id,
                   sent_at |-> t]}

\* cleanup_old_news(days) called when datetime.now() is t: the table after
\* the DELETE and the value returned.  sent_at was written by SQLite's
\* CURRENT_TIMESTAMP, the clock of UTC.
cleanup_old_news(db, days, t) ==
    LET cutoff_date == t - days
        deleted == {r \in db : r.sent_at < cutoff_date}
    IN [db |-> db \ deleted, deleted_count |-> Cardinality(deleted)]

-----------------------------------------------------------------------------
(* EnhancedTelegramParser: extraction (parser.py) *)

\* a datetime attribute that datetime.fromisoformat rejects
Unparsable == -1

\* what stands for an exception that leaves _parse_message_enhanced
ParseError == Some([exc |-> "parse"])

\* variant: a container without text and without file is kept
parse_message_enhanced_keep_empty(widget, channel, t) ==
    IF "malformed" \in DOMAIN widget
    THEN NoValue
    ELSE Some([text |-> widget.text,
               timestamp |-> IF widget.time = Some(Unparsable)
                             THEN Some(t) ELSE widget.time,
               id |-> widget.id,
               channel |-> channel,
               has_file |-> widget.file_types # <<>>,
               file_types |-> widget.file_types])

\* variant: no try/except around the body
parse_message_enhanced_strict(widget, channel, t) ==
    IF "malformed" \in DOMAIN widget
    THEN ParseError
    ELSE IF widget.text = <<>> /\ widget.file_types = <<>>
         THEN NoValue
         ELSE Some([text |-> widget.text,
                    timestamp |-> IF widget.time = Some(Unparsable)
                                  THEN Some(t) ELSE widget.time,
                    id |-> widget.id,
                    channel |-> channel,
                    has_file |-> widget.file_types # <<>>,
                    file_types |-> widget.file_types])

\* one message container of a page -> message dict, or None.  A container
\* on which a lookup raises (malformed) is caught by the except clause; a
\* time element whose datetime does not parse gives datetime.now()
parse_message_enhanced(widget, channel, t) ==
    IF "malformed" \in DOMAIN widget
    THEN NoValue
    ELSE IF widget.text = <<>> /\ widget.file_types = <<>>
         THEN NoValue
         ELSE Some([text |-> widget.text,
                    timestamp |-> IF widget.time = Some(Unparsable)
                                  THEN Some(t) ELSE widget.time,
                    id |-> widget.id,
                    channel |-> channel,
                    has_file |-> widget.file_types # <<>>,
                    file_types |-> widget.file_types])

\* variant: messages without a timestamp sort as the newest
TimeKeyMissingFirst(m) == IF IsNone(m.timestamp) THEN 1000 ELSE Val(m.timestamp)

\* key of messages.sort: x.get('timestamp') or datetime.min
TimeKey(m) == IF IsNone(m.timestamp) THEN -1 ELSE Val(m.timestamp)

\* get_channel_messages after fetch_channel has returned html; an exception
\* inside the try block gives []
extract_messages(html, channel, limit, t) ==
    IF html = <<>> THEN <<>>
    ELSE LET message_widgets ==
                 SelectIdx(html, {i \in 1..Len(html) : html[i].kind = "msg"}, 1)
             parsed == [i \in 1..Len(Take(message_widgets, limit)) |->
                           parse_message_enhanced(message_widgets[i], channel, t)]
             kept == SelectIdx(parsed,
                               {j \in 1..Len(parsed) : ~IsNone(parsed[j])}, 1)
             messages == [i \in 1..Len(kept) |-> Val(kept[i])]
         IN IF \E i \in 1..Len(parsed) : parsed[i] = ParseError
            THEN <<>>
            ELSE SortDesc(messages,
                          [i \in 1..Len(messages) |-> TimeKey(messages[i])])

\* get_fresh_messages after get_channel_messages has returned
fresh_messages(all_messages, t) ==
    SelectIdx(all_messages,
              {i \in 1..Len(all_messages) :
                  /\ ~IsNone(all_messages[i].timestamp)
                  /\ Val(all_messages[i].timestamp) > t - hours}, 1)

-----------------------------------------------------------------------------
(* EnhancedTelegramParser: fetching (parser.py) *)

max_tries == 3

\* fetch_with_retry under backoff.on_exception: outs[k] is what the k-th
\* request meets, Len(outs) <= max_tries is the number of tries that fit
\* into max_time
RECURSIVE fetch_with_retry(_, _, _)
fetch_with_retry(page, outs, k) ==
    IF outs[k] = "200" THEN [kind |-> "html", html |-> page, attempts |-> k]
    ELSE IF outs[k] \in {"404", "500"}
         THEN [kind |-> "none", html |-> <<>>, attempts |-> k]
         ELSE IF k < Len(outs) /\ k < max_tries
              THEN fetch_with_retry(page, outs, k + 1)
              ELSE [kind |-> "raise", html |-> <<>>, attempts |-> k]

\* what one request can meet: a status, asyncio.TimeoutError, a ClientError
Outcomes == {"200", "404", "500", "timeout", "error"}
Retried == {"timeout", "error"}

\* the outcomes of the requests of one call: every request but the last has
\* raised, the last is the one the call ends with
OutcomeSeqs ==
    UNION {{pre \o <<o>> : pre \in [1..(n - 1) -> Retried], o \in Outcomes} :
              n \in 1..max_tries}

\* every way a call of fetch_with_retry for a page can end
FetchResults(page) == {fetch_with_retry(page, outs, 1) : outs \in OutcomeSeqs}

\* variant: every failed request is retried, an error status included
fetch_attempt_retry_status(f, page, o, in_time) ==
    LET tries == Append(f.tries, o)
    IN IF o = "200"
       THEN [f EXCEPT !.pc = "done", !.tries = tries,
                      !.result = Some([kind |-> "html", html |-> page])]
       ELSE IF o = "404"
            THEN [f EXCEPT !.pc = "done", !.tries = tries,
                           !.result = Some([kind |-> "none", html |-> <<>>])]
            ELSE IF Len(tries) < max_tries /\ in_time
                 THEN [f EXCEPT !.pc = "backoff", !.tries = tries]
                 ELSE [f EXCEPT !.pc = "done", !.tries = tries,
                                !.result = Some([kind |-> "raise", html |-> <<>>])]

\* one request of a fetch_with_retry call f meets o: the body of
\* fetch_with_retry returns or raises, and backoff.on_exception either
\* sleeps before the next try or gives up (max_tries reached, or max_time
\* used up: ~in_time) and lets the exception through
fetch_attempt(f, page, o, in_time) ==
    LET tries == Append(f.tries, o)
    IN IF o = "200"
       THEN [f EXCEPT !.pc = "done", !.tries = tries,
                      !.result = Some([kind |-> "html", html |-> page])]
       ELSE IF o \in {"404", "500"}
            THEN [f EXCEPT !.pc = "done", !.tries = tries,
                           !.result = Some([kind |-> "none", html |-> <<>>])]
            ELSE IF Len(tries) < max_tries /\ in_time
                 THEN [f EXCEPT !.pc = "backoff", !.tries = tries]
                 ELSE [f EXCEPT !.pc = "done", !.tries = tries,
                                !.result = Some([kind |-> "raise", html |-> <<>>])]

RECURSIVE lstrip_at(_)
lstrip_at(name) ==
    IF name # <<>> /\ Head(name) = "@" THEN lstrip_at(Tail(name)) ELSE name

\* variant: the key is made of the handle as passed
cache_key_raw(channel_username) == <<"html:">> \o channel_username

cache_key(channel_username) == <<"html:">> \o lstrip_at(channel_username)

\* variant: no cache lookup
fetch_channel_begin_uncached(c, channel_username, use_cache, t) ==
    [cache |-> c, returned |-> FALSE, html |-> NoValue]

\* fetch_channel up to `await self.fetch_with_retry(url)`: the cache after the
\* lookup, whether the call returns at once, and what it returns then
fetch_channel_begin(c, channel_username, use_cache, t) ==
    LET cached == IF use_cache
                  THEN SmartCache_get(c, cache_key(channel_username), t)
                  ELSE [cache |-> c, hit |-> FALSE, data |-> NoValue]
    IN [cache |-> cached.cache,
        returned |-> cached.hit /\ cached.data # <<>>,
        html |-> cached.data]

\* variant: whatever fetch_with_retry returned is stored
fetch_channel_end_stores_all(c, channel_username, use_cache, r, t) ==
    [cache |-> IF use_cache
               THEN SmartCache_set(c, cache_key(channel_username), r.html, t)
               ELSE c,
     html |-> r.html,
     raised |-> r.kind = "raise"]

\* variant: the page is returned without being stored
fetch_channel_end_unstored(c, channel_username, use_cache, r, t) ==
    [cache |-> c, html |-> r.html, raised |-> r.kind = "raise"]

\* fetch_channel from the return of fetch_with_retry (result r) on
fetch_channel_end(c, channel_username, use_cache, r, t) ==
    [cache |-> IF r.kind = "html" /\ r.html # <<>> /\ use_cache
               THEN SmartCache_set(c, cache_key(channel_username), r.html, t)
               ELSE c,
     html |-> r.html,
     raised |-> r.kind = "raise"]

-----------------------------------------------------------------------------
(* Database: table user_channels (database.py) *)

page_size == 10     \* get_channels(user_id, page=1, page_size=10)

Reverse(s) == [i \in 1..Len(s) |-> s[Len(s) + 1 - i]]

\* add_channel: INSERT OR IGNORE under PRIMARY KEY (user_id, channel_username)
add_channel(tbl, user_id, channel) ==
    LET name == LowerText(lstrip_at(channel))
    IN IF name = <<>> THEN tbl
       ELSE IF \E r \in 1..Len(tbl) :
                   tbl[r].user_id = user_id /\ tbl[r].channel_username = name
            THEN tbl
            ELSE Append(tbl, [user_id |-> user_id, channel_username |-> name])

\* the subscriber's channel names ORDER BY added_at (get_all_channels)
get_all_channels(tbl, user_id) ==
    LET rows == SelectIdx(tbl, {r \in 1..Len(tbl) : tbl[r].user_id = user_id}, 1)
    IN [r \in 1..Len(rows) |-> rows[r].channel_username]

\* Python values of the kinds get_channels returns
PyList(v) == [type |-> "list", v |-> v]
PyInt(v) == [type |-> "int", v |-> v]
PyStr(v) == [type |-> "str", v |-> v]

\* get_channels: the tuple (channels of the page, total_channels, total_pages),
\* the page taken ORDER BY added_at DESC LIMIT page_size OFFSET offset
get_channels(tbl, user_id, page) ==
    LET newest_first == Reverse(get_all_channels(tbl, user_id))
        total_channels == Len(newest_first)
        offset == (page - 1) * page_size
        channels == SubSeq(newest_first, offset + 1,
                           Min(offset + page_size, total_channels))
        total_pages == (total_channels + page_size - 1) \div page_size
    IN <<PyList(channels), PyInt(total_channels), PyInt(total_pages)>>

-----------------------------------------------------------------------------
(* Database: table user_keywords (database.py) and the handler of the     *)
(* weighted-keyword input (bot.py)                                         *)

MaxKeywords == 20   \* process_weighted_keywords_input: at most 20 terms

\* set_keywords(user_id, keywords), after the DELETE of the old rows: the
\* rows inserted, each keyword stripped and lower-cased, once
RECURSIVE insert_keywords(_, _)
insert_keywords(keywords, rows) ==
    IF keywords = <<>> THEN rows
    ELSE LET keyword == LowerText(Strip(Head(keywords)))
         IN insert_keywords(Tail(keywords),
                            IF keyword # <<>>
                               /\ \A i \in 1..Len(rows) : rows[i] # keyword
                            THEN Append(rows, keyword) ELSE rows)

set_keywords(keywords) == insert_keywords(keywords, <<>>)

\* process_weighted_keywords_input: the positive keywords of the subscriber
\* after the handler, `rows` before it
process_weighted_keywords_input(rows, text) ==
    LET weighted_keywords == parse_weighted_keywords(text)
        keywords == [i \in 1..Len(weighted_keywords) |-> weighted_keywords[i][1]]
    IN IF weighted_keywords = <<>> \/ Len(weighted_keywords) > MaxKeywords
       THEN rows
       ELSE set_keywords(keywords)

-----------------------------------------------------------------------------
(* The world of the model: subscribers, their stored channels and rules,   *)
(* and the pages the channels serve                                        *)

Users == {1, 2}
Tasks == 1..MaxCycles

ChanA == <<"a">>
ChanB == <<"b">>
ChanC == <<"c">>
ChanD == <<"d">>

\* the subscriber's stored channel names, as cmd_check_news iterates them
user_channels(u) ==
    IF u = 3 THEN <<ChanB, ChanC, ChanA>>
    ELSE IF u = 4 THEN <<ChanD>>
    ELSE <<ChanA>>

DEFAULT_KEYWORDS == << <<"a", "i">> >>

\* Database.get_keywords: (keywords, negative_keywords)
get_keywords(u) ==
    IF u = 1
    THEN [keywords |-> << <<"a", "i">> >>, negative |-> << <<"w", "a", "r">> >>]
    ELSE IF u = 3
         THEN [keywords |-> << <<"a", "i">>, <<"x">> >>,
               negative |-> << <<"w", "a", "r">> >>]
         ELSE [keywords |-> <<>>, negative |-> <<>>]

Header == [kind |-> "header"]
Widget(id, text, time, files) ==
    [kind |-> "msg", id |-> id, text |-> text, time |-> time,
     file_types |-> files]

W_ai == Widget(Some(1), <<"a", "i">>, Some(0), <<>>)
W_air == Widget(Some(2), <<"a", "i", "r">>, Some(1), <<>>)
W_dot == Widget(NoValue, <<"x", ".", "a", "i">>, Some(1), <<>>)
W_war == Widget(Some(3), <<"A", "I", " ", "w", "a", "r">>, Some(1), <<>>)
W_veto == Widget(Some(4), <<"a", "i", " ", "x", " ", "w", "a", "r", "s">>,
                 Some(1), <<>>)

\* a message container without a time element
W_undated == Widget(Some(5), <<"a", "i">>, NoValue, <<>>)

\* a channel that is private, and the notice its page shows in place of
\* messages (a text that check_channel_exists looks for)
ChanP == <<"p">>
PrivateNotice == [kind |-> "text", private |-> TRUE]

\* what the network serves for each channel (in document order); the server
\* does not distinguish letter case in a channel name
pages(c) ==
    IF LowerText(c) = ChanA THEN <<Header, W_ai, W_air>>
    ELSE IF LowerText(c) = ChanB THEN <<Header, W_war, W_dot, W_veto>>
    ELSE IF LowerText(c) = ChanP THEN <<Header, PrivateNotice>>
    ELSE IF LowerText(c) = ChanD THEN <<Header, W_undated, W_ai, W_air>>
    ELSE <<Header>>

-----------------------------------------------------------------------------
(* NewsQueueManager (bot.py) *)

ScoreOf(item) == item.news_item.analysis.score

\* variant: the call ends after its first put
add_news_batch_first_only(q, user_id, news_items, tag) ==
    LET sorted_items ==
            SortDesc([i \in 1..Len(news_items) |->
                         [news_item |-> news_items[i], pos |-> i]],
                     [i \in 1..Len(news_items) |-> news_items[i].analysis.score])
    IN Append(q, [user_id |-> user_id, news_item |-> sorted_items[1].news_item,
                  tag |-> tag, pos |-> sorted_items[1].pos])

\* variant: no sort before the puts
add_news_batch_unsorted(q, user_id, news_items, tag) ==
    q \o [i \in 1..Len(news_items) |->
             [user_id |-> user_id, news_item |-> news_items[i],
              tag |-> tag, pos |-> i]]

\* add_news_batch: the queue after the call.  tag numbers the call and pos is
\* the place of the item in news_items as passed (history fields of the
\* queued entry); 'added_at' is left out, nothing reads it.
add_news_batch(q, user_id, news_items, tag) ==
    LET sorted_items ==
            SortDesc([i \in 1..Len(news_items) |->
                         [news_item |-> news_items[i], pos |-> i]],
                     [i \in 1..Len(news_items) |-> news_items[i].analysis.score])
    IN q \o [i \in 1..Len(sorted_items) |->
                [user_id |-> user_id, news_item |-> sorted_items[i].news_item,
                 tag |-> tag, pos |-> sorted_items[i].pos]]

\* the local state of process_queue/_send_batch with the queue and the stats
Drain ==
    [queue |-> queue, qpc |-> qpc, batch |-> batch, bi |-> bi,
     sent_count |-> sent_count, stats |-> stats, lastAttempt |-> lastAttempt]

NoteAttempt(la, item) ==
    [g \in DOMAIN la \cup {item.tag} |->
        IF g = item.tag THEN ScoreOf(item) ELSE la[g]]

\* _send_batch formats item i and awaits bot.send_message for it
BeginSend(d, i) ==
    [d EXCEPT !.qpc = "sending", !.bi = i,
              !.lastAttempt = NoteAttempt(d.lastAttempt, d.batch[i])]

\* variant: the whole queue is taken as one batch
LoopHeadPullAll(d, proc) ==
    IF ~proc
    THEN [d EXCEPT !.qpc = "stopped", !.batch = <<>>, !.bi = 0, !.sent_count = 0]
    ELSE LET d1 == [d EXCEPT !.queue = <<>>, !.batch = d.queue,
                             !.sent_count = 0]
         IN IF d1.batch # <<>>
            THEN BeginSend(d1, 1)
            ELSE [d1 EXCEPT !.qpc = "idle_sleep", !.bi = 0]

\* variant: `while True`
LoopHeadNoStop(d, proc) ==
    LET n == Min(batch_size, Len(d.queue))
        d1 == [d EXCEPT !.queue = SubSeq(d.queue, n + 1, Len(d.queue)),
                        !.batch = SubSeq(d.queue, 1, n),
                        !.sent_count = 0]
    IN IF d1.batch # <<>>
       THEN BeginSend(d1, 1)
       ELSE [d1 EXCEPT !.qpc = "idle_sleep", !.bi = 0]

\* process_queue at `while self.processing`, up to its next await
LoopHead(d, proc) ==
    IF ~proc
    THEN [d EXCEPT !.qpc = "stopped", !.batch = <<>>, !.bi = 0, !.sent_count = 0]
    ELSE LET n == Min(batch_size, Len(d.queue))
             d1 == [d EXCEPT !.queue = SubSeq(d.queue, n + 1, Len(d.queue)),
                             !.batch = SubSeq(d.queue, 1, n),
                             !.sent_count = 0]
         IN IF d1.batch # <<>>
            THEN BeginSend(d1, 1)
            ELSE [d1 EXCEPT !.qpc = "idle_sleep", !.bi = 0]

\* _send_batch goes on after item d.bi, up to the next await
NextItem(d, proc) ==
    IF d.bi < Len(d.batch)
    THEN BeginSend(d, d.bi + 1)
    ELSE LET d1 == [d EXCEPT !.stats.sent = @ + d.sent_count]
         IN IF d.sent_count > 0
            THEN [d1 EXCEPT !.qpc = "batch_sleep"]
            ELSE LoopHead(d1, proc)

\* variant: after a failed send the item is put back at the end of the queue
RequeueAfterError(d, proc) ==
    NextItem([d EXCEPT !.queue = Append(d.queue, d.batch[d.bi])], proc)

\* variant: the except clause leaves the for loop (break)
AbortBatch(d, proc) == NextItem([d EXCEPT !.bi = Len(d.batch)], proc)

\* _send_batch after send_message has raised: except: log, continue
AfterSendError(d, proc) == NextItem(d, proc)

\* variant: mark_news_sent in a finally clause
send_item_marks_always(db, item, ok, t) ==
    [db |-> mark_news_sent(db, item.user_id, item.news_item.hash,
                           item.news_item.message.channel,
                           item.news_item.message.id, t),
     marks |-> 1]

\* variant: no mark_news_sent at all
send_item_marks_never(db, item, ok, t) == [db |-> db, marks |-> 0]

\* _send_batch, the try block for one item: the table after send_message has
\* returned (ok) or raised (~ok)
send_item(db, item, ok, t) ==
    IF ok
    THEN [db |-> mark_news_sent(db, item.user_id, item.news_item.hash,
                                item.news_item.message.channel,
                                item.news_item.message.id, t),
          marks |-> 1]
    ELSE [db |-> db, marks |-> 0]

SetDrain(d) ==
    /\ queue' = d.queue
    /\ qpc' = d.qpc
    /\ batch' = d.batch
    /\ bi' = d.bi
    /\ sent_count' = d.sent_count
    /\ stats' = d.stats
    /\ lastAttempt' = d.lastAttempt

Bump(f, p) ==
    [x \in DOMAIN f \cup {p} |->
        IF x = p THEN (IF p \in DOMAIN f THEN f[p] + 1 ELSE 1) ELSE f[x]]

Count(f, p) == IF p \in DOMAIN f THEN f[p] ELSE 0

\* history record of a step: its kind, the subscriber, the hash of the item
\* sent, the number of items enqueued, whether a page was obtained
Event(type, user, hash, n, got) ==
    [type |-> type, user |-> user, hash |-> hash, n |-> n, got |-> got]

CurItem == batch[bi]
CurKey == <<CurItem.user_id, CurItem.news_item.hash>>

\* the table and the count of mark_news_sent calls after one try block
NoteSend(r) ==
    /\ sent_news' = r.db
    /\ markCalls' = IF r.marks > 0 THEN Bump(markCalls, CurKey) ELSE markCalls


\* main: the task made by asyncio.create_task(process_queue(...)) starts to run
StartQueue ==
    /\ qpc = "init"
    /\ processing' = TRUE
    /\ SetDrain(LoopHead(Drain, TRUE))
    /\ ev' = Event("start_queue", 0, <<>>, 0, FALSE)
    /\ UNCHANGED <<auxVars, now, parserVars, sent_news, batch_size, cyc, okSends,
                   failSends, markCalls, tags>>

\* _send_batch: send_message returns; mark_news_sent; sent_count += 1; sleep(0.1)
SendOk ==
    /\ qpc = "sending"
    /\ NoteSend(send_item(sent_news, CurItem, TRUE, now))
    /\ sent_count' = sent_count + 1
    /\ qpc' = "item_sleep"
    /\ okSends' = Bump(okSends, CurKey)
    /\ failSends' = failSends
    /\ ev' = Event("send_ok", CurItem.user_id, CurItem.news_item.hash, 0, FALSE)
    /\ UNCHANGED <<auxVars, now, parserVars, queue, processing, stats, batch, bi,
                   batch_size, cyc, lastAttempt, tags>>

\* _send_batch: send_message raises
SendFail ==
    /\ qpc = "sending"
    /\ NoteSend(send_item(sent_news, CurItem, FALSE, now))
    /\ SetDrain(AfterSendError(Drain, processing))
    /\ okSends' = okSends
    /\ failSends' = Bump(failSends, CurKey)
    /\ ev' = Event("send_fail", CurItem.user_id, CurItem.news_item.hash, 0, FALSE)
    /\ UNCHANGED <<auxVars, now, parserVars, processing, batch_size, cyc, tags>>

\* an asyncio.sleep of the drain loop is over
Wake ==
    /\ qpc \in {"item_sleep", "batch_sleep", "idle_sleep"}
    /\ SetDrain(IF qpc = "item_sleep" THEN NextItem(Drain, processing)
                ELSE LoopHead(Drain, processing))
    /\ ev' = Event("wake", 0, <<>>, 0, FALSE)
    /\ UNCHANGED <<auxVars, now, parserVars, sent_news, processing, batch_size, cyc,
                   okSends, failSends, markCalls, tags>>

\* NewsQueueManager.stop_processing
stop_processing ==
    /\ processing
    /\ processing' = FALSE
    /\ ev' = Event("stop", 0, <<>>, 0, FALSE)
    /\ UNCHANGED <<auxVars, now, parserVars, sent_news, queue, stats, qpc, batch, bi,
                   sent_count, batch_size, cyc, okSends, failSends, markCalls,
                   lastAttempt, tags>>

-----------------------------------------------------------------------------
(* cmd_check_news (bot.py) *)

limit == 20

\* cmd_check_news, `for msg in messages`: the channel_news list
\* variant: a negative match only lowers the score
channel_news_deducting(messages, user_id, channel, weighted_keywords, negative, db) ==
    LET analysis(i) == analyze_message(messages[i].text, weighted_keywords, negative)
        news_hash(i) == generate_news_hash(messages[i].text, channel, messages[i].id)
    IN SelectIdx([i \in 1..Len(messages) |->
                     [message |-> messages[i], analysis |-> analysis(i),
                      hash |-> news_hash(i)]],
                 {i \in 1..Len(messages) :
                     /\ analysis(i).relevant
                     /\ ~is_news_sent(db, user_id, news_hash(i))}, 1)

channel_news_unfiltered(messages, user_id, channel, weighted_keywords, negative, db) ==
    LET analysis(i) == analyze_message(messages[i].text, weighted_keywords, negative)
        news_hash(i) == generate_news_hash(messages[i].text, channel, messages[i].id)
    IN SelectIdx([i \in 1..Len(messages) |->
                     [message |-> messages[i], analysis |-> analysis(i),
                      hash |-> news_hash(i)]],
                 {i \in 1..Len(messages) :
                     analysis(i).relevant /\ ~analysis(i).has_negative}, 1)

channel_news(messages, user_id, channel, weighted_keywords, negative, db) ==
    LET analysis(i) == analyze_message(messages[i].text, weighted_keywords, negative)
        news_hash(i) == generate_news_hash(messages[i].text, channel, messages[i].id)
    IN SelectIdx([i \in 1..Len(messages) |->
                     [message |-> messages[i], analysis |-> analysis(i),
                      hash |-> news_hash(i)]],
                 {i \in 1..Len(messages) :
                     /\ analysis(i).relevant
                     /\ ~analysis(i).has_negative
                     /\ ~is_news_sent(db, user_id, news_hash(i))}, 1)

\* variant: every rule counts twice
weighted_double(keywords) ==
    [j \in 1..Len(keywords) |-> [keyword |-> keywords[j], weight |-> 20]]

\* weighted_keywords = [(kw, 1.0) for kw in keywords]
weighted(keywords) ==
    [j \in 1..Len(keywords) |-> [keyword |-> keywords[j], weight |-> 10]]

\* what a check of `channel` finds in html at time t for subscriber user_id,
\* whose db.get_keywords gives kw
FoundNewsWith(kw, user_id, channel, html, db, t) ==
    LET keywords == IF kw.keywords = <<>> THEN DEFAULT_KEYWORDS ELSE kw.keywords
        messages ==
            fresh_messages(extract_messages(html, lstrip_at(channel), limit, t), t)
    IN channel_news(messages, user_id, channel, weighted(keywords), kw.negative, db)

FoundNews(user_id, channel, html, db, t) ==
    FoundNewsWith(get_keywords(user_id), user_id, channel, html, db, t)

ChannelOf(t, i) == user_channels(cyc[t].user)[i]

\* loop body of cmd_check_news from the return of get_fresh_messages to
\* `await asyncio.sleep(0.5)`; the parser reads datetime.now(), the naive
\* local time of the host
ProcessChannel(t, i, html) ==
    \E news \in {FoundNews(cyc[t].user, ChannelOf(t, i), html, sent_news,
                           now + utc_offset)} :
       /\ queue' = IF news = <<>> THEN queue
                   ELSE add_news_batch(queue, cyc[t].user, news, tags + 1)
       /\ tags' = IF news = <<>> THEN tags ELSE tags + 1
       /\ cyc' = [cyc EXCEPT ![t].pc = "sleep", ![t].i = i]
       /\ ev' = Event("checked", cyc[t].user, <<>>, Len(news), html # <<>>)

\* loop body of cmd_check_news for channel number i, up to its first await:
\* fetch_channel consults the cache and either returns or sends a request
EnterChannel(t, i) ==
    \E b \in {fetch_channel_begin(cache, ChannelOf(t, i), TRUE, now)} :
       /\ cache' = b.cache
       /\ IF b.returned
          THEN ProcessChannel(t, i, b.html)
          ELSE /\ cyc' = [cyc EXCEPT ![t].pc = "fetch", ![t].i = i]
               /\ ev' = Event("request", cyc[t].user, <<>>, 0, FALSE)
               /\ UNCHANGED <<queue, tags>>

\* the loop of cmd_check_news is over
FinishCycle(t) ==
    /\ cyc' = [cyc EXCEPT ![t].pc = "done"]
    /\ ev' = Event("cycle_done", cyc[t].user, <<>>, 0, FALSE)
    /\ UNCHANGED <<cache, queue, tags>>

\* cmd_check_news is called for subscriber u, up to `await message.answer`
CheckStart(t, u) ==
    /\ cyc[t].pc = "idle"
    /\ \A t2 \in Tasks : t2 < t => cyc[t2].pc # "idle"
    /\ cyc' = [cyc EXCEPT ![t] =
                  [pc |-> IF user_channels(u) = <<>> THEN "done" ELSE "status",
                   user |-> u, i |-> 0]]
    /\ ev' = Event("check_start", u, <<>>, 0, FALSE)
    /\ UNCHANGED <<auxVars, now, parserVars, queueVars>>

\* cmd_check_news resumes after the status message or after sleep(0.5)
CheckResume(t) ==
    /\ cyc[t].pc \in {"status", "sleep"}
    /\ IF cyc[t].i < Len(user_channels(cyc[t].user))
       THEN EnterChannel(t, cyc[t].i + 1)
       ELSE FinishCycle(t)
    /\ UNCHANGED <<auxVars, now, ttl, max_size, pend, cres, sent_news, processing, stats,
                   qpc, batch, bi, sent_count, batch_size, okSends, failSends,
                   markCalls, lastAttempt>>

\* the task of cmd_check_news is cancelled while it is suspended at an await
\* of the loop (shutdown): CancelledError is no Exception, the except clause
\* of the loop body lets it through and the call ends
CancelCycle(t) ==
    /\ cyc[t].pc \in {"status", "sleep", "fetch"}
    /\ cyc' = [cyc EXCEPT ![t].pc = "cancelled"]
    /\ ev' = Event("cancel", cyc[t].user, <<>>, 0, FALSE)
    /\ UNCHANGED <<auxVars, now, parserVars, queueVars>>

\* variant: no try/except around the loop body
AbortCycle(t) == FinishCycle(t)

\* cmd_check_news when get_fresh_messages raises: except Exception: log,
\* continue (the status update and sleep(0.5) are skipped)
AfterChannelError(t) ==
    IF cyc[t].i < Len(user_channels(cyc[t].user))
    THEN EnterChannel(t, cyc[t].i + 1)
    ELSE FinishCycle(t)

\* fetch_with_retry returns to fetch_channel, or raises through it, with r
FetchReturn(t, r) ==
    /\ cyc[t].pc = "fetch"
    /\ r \in FetchResults(pages(lstrip_at(ChannelOf(t, cyc[t].i))))
    /\ \E e \in {fetch_channel_end(cache, ChannelOf(t, cyc[t].i), TRUE, r, now)} :
          IF e.raised
          THEN AfterChannelError(t)
          ELSE /\ cache' = e.cache
               /\ ProcessChannel(t, cyc[t].i, e.html)
    /\ UNCHANGED <<auxVars, now, ttl, max_size, pend, cres, sent_news, processing, stats,
                   qpc, batch, bi, sent_count, batch_size, okSends, failSends,
                   markCalls, lastAttempt>>

Tick ==
    /\ now < MaxTime
    /\ now' = now + 1
    /\ UNCHANGED <<auxVars, parserVars, queueVars, cyc, ev>>

-----------------------------------------------------------------------------
(* The bot: check cycles and the drain loop over one cache and one table *)

parser_max_size == 1000

NoCall == [op |-> "none", key |-> <<>>, use_cache |-> FALSE, hit |-> FALSE,
           data |-> <<>>, net |-> FALSE, had |-> FALSE, age |-> <<>>,
           evicted |-> {}]

\* no cmd_check_news call over get_channels is under way
NoCheck == [pc |-> "idle", user |-> 0, channels |-> <<>>, i |-> 0,
            processed |-> <<>>]

\* no fetch_with_retry call has been made
NoFetch == [pc |-> "idle", url |-> <<>>, tries |-> <<>>, result |-> NoValue]

InitQueue ==
    /\ sent_news = {}
    /\ queue = <<>>
    /\ processing = FALSE
    /\ stats = [sent |-> 0, failed |-> 0]
    /\ qpc = "init"
    /\ batch = <<>>
    /\ bi = 0
    /\ sent_count = 0
    /\ okSends = [p \in {} |-> 0]
    /\ failSends = [p \in {} |-> 0]
    /\ markCalls = [p \in {} |-> 0]
    /\ lastAttempt = [g \in {} |-> 0]
    /\ tags = 0
    /\ fw = NoFetch
    /\ arg = NoValue
    /\ ret = NoValue
    /\ chan_table = <<>>
    /\ chk = NoCheck

Init ==
    /\ now = 0
    /\ cache = <<>>
    /\ ttl = cache_ttl
    /\ max_size = parser_max_size
    /\ pend = NoValue
    /\ cres = NoCall
    /\ InitQueue
    /\ utc_offset = 0
    /\ batch_size = MaxBatchSize
    /\ cyc = [t \in Tasks |-> [pc |-> "idle", user |-> 0, i |-> 0]]
    /\ ev = Event("init", 0, <<>>, 0, FALSE)

Next ==
    \/ StartQueue
    \/ SendOk
    \/ SendFail
    \/ Wake
    \/ stop_processing
    \/ \E t \in Tasks, u \in Users : CheckStart(t, u)
    \/ \E t \in Tasks : CheckResume(t)
    \/ \E t \in Tasks :
          /\ cyc[t].pc = "fetch"
          /\ \E r \in FetchResults(pages(lstrip_at(ChannelOf(t, cyc[t].i)))) :
                FetchReturn(t, r)
    \/ Tick

Spec == Init /\ [][Next]_vars

-----------------------------------------------------------------------------
(* The queue manager alone: any caller of add_news_batch, and the drain loop *)

\* a news item of channel A whose text "ai" is scored with keyword weight w
NewsItem(id, w) ==
    [message |-> Val(parse_message_enhanced(
                        Widget(Some(id), <<"a", "i">>, Some(0), <<>>), ChanA, 0)),
     analysis |-> analyze_message(<<"a", "i">>,
                                  <<[keyword |-> <<"a", "i">>, weight |-> w]>>,
                                  <<>>),
     hash |-> generate_news_hash(<<"a", "i">>, ChanA, Some(id))]

\* news_items arguments: scores [1.0, 5.0, 3.0], [3.0, 3.0, 5.0], [5.0, 1.0]
NewsLists ==
    { <<NewsItem(1, 5), NewsItem(2, 25), NewsItem(3, 15)>>,
      <<NewsItem(4, 15), NewsItem(5, 15), NewsItem(6, 25)>>,
      <<NewsItem(7, 25), NewsItem(8, 5)>> }

\* some coroutine calls add_news_batch(user_id, news_items)
AddBatch(user_id, news_items) ==
    /\ tags < MaxAdds
    /\ queue' = add_news_batch(queue, user_id, news_items, tags + 1)
    /\ tags' = tags + 1
    /\ ev' = Event("add", user_id, <<>>, Len(news_items), FALSE)
    /\ UNCHANGED <<auxVars, now, parserVars, sent_news, processing, stats, qpc, batch,
                   bi, sent_count, batch_size, cyc, okSends, failSends,
                   markCalls, lastAttempt>>

InitQ ==
    /\ now = 0
    /\ cache = <<>>
    /\ ttl = cache_ttl
    /\ max_size = parser_max_size
    /\ pend = NoValue
    /\ cres = NoCall
    /\ InitQueue
    /\ utc_offset = 0
    /\ batch_size \in 1..MaxBatchSize
    /\ cyc = [t \in Tasks |-> [pc |-> "idle", user |-> 0, i |-> 0]]
    /\ ev = Event("init", 0, <<>>, 0, FALSE)

NextQ ==
    \/ StartQueue
    \/ SendOk
    \/ SendFail
    \/ Wake
    \/ stop_processing
    \/ \E news_items \in NewsLists : AddBatch(1, news_items)

SpecQueue == InitQ /\ [][NextQ]_vars

\* the event loop resumes the drain task: an awaited send_message returns
\* or raises, an asyncio.sleep ends
SpecQueueFair ==
    /\ SpecQueue
    /\ WF_vars(SendOk \/ SendFail)
    /\ WF_vars(Wake)

-----------------------------------------------------------------------------
(* The parser's cache alone: get, set and fetch_channel calls in any order *)

ChannelNames == {ChanA, ChanB, ChanC, <<"@", "a">>}

KeysOf(c) == {c[i].key : i \in 1..Len(c)}

\* history record of a call: what it returned, whether it went to the
\* network, whether the key was cached when it began and how old the entry
\* was, and the keys the call removed from the cache
Call(op, key, use_cache, hit, data, net, c2) ==
    [op |-> op, key |-> key, use_cache |-> use_cache, hit |-> hit,
     data |-> data, net |-> net,
     had |-> HasKey(cache, key),
     age |-> IF HasKey(cache, key)
             THEN Some(now - EntryOf(cache, key).timestamp) ELSE NoValue,
     evicted |-> KeysOf(cache) \ KeysOf(c2)]

cacheFrozen == <<ttl, max_size, sent_news, queue, processing, stats, qpc,
                 batch, bi, sent_count, batch_size, cyc, ev, okSends,
                 failSends, markCalls, lastAttempt, tags, auxVars>>

\* SmartCache.get(key)
CacheGet(key) ==
    /\ \E g \in {SmartCache_get(cache, key, now)} :
          /\ cache' = g.cache
          /\ cres' = Call("get", key, TRUE, g.hit, g.data, FALSE, g.cache)
    /\ UNCHANGED <<now, pend, cacheFrozen>>

\* SmartCache.set(key, data)
CacheSet(key, data) ==
    /\ \E c2 \in {SmartCache_set(cache, key, data, now)} :
          /\ cache' = c2
          /\ cres' = Call("set", key, TRUE, FALSE, data, FALSE, c2)
    /\ UNCHANGED <<now, pend, cacheFrozen>>

\* fetch_channel(channel_username, use_cache) is called and runs up to its
\* return from the cache or to `await self.fetch_with_retry(url)`
FetchCall(channel_username, use_cache) ==
    /\ IsNone(pend)
    /\ \E b \in {fetch_channel_begin(cache, channel_username, use_cache, now)} :
          /\ cache' = b.cache
          /\ cres' = Call(IF b.returned THEN "fetch" ELSE "request",
                          cache_key(channel_username), use_cache, b.returned,
                          IF b.returned THEN b.html ELSE NoValue,
                          ~b.returned, b.cache)
                      @@ [name |-> channel_username]
          /\ pend' = IF b.returned THEN NoValue
                     ELSE Some([channel_username |-> channel_username,
                                use_cache |-> use_cache])
    /\ UNCHANGED <<now, cacheFrozen>>

\* fetch_with_retry returns to the pending fetch_channel, or raises, with r
FetchDone(r) ==
    /\ ~IsNone(pend)
    /\ r \in FetchResults(pages(lstrip_at(Val(pend).channel_username)))
    /\ \E e \in {fetch_channel_end(cache, Val(pend).channel_username,
                                   Val(pend).use_cache, r, now)} :
          /\ cache' = e.cache
          /\ cres' = Call("fetched", cache_key(Val(pend).channel_username),
                          Val(pend).use_cache, FALSE, e.html, TRUE, e.cache)
    /\ pend' = NoValue
    /\ UNCHANGED <<now, cacheFrozen>>

TickCache ==
    /\ now < MaxClock
    /\ now' = now + 1
    /\ cres' = [NoCall EXCEPT !.op = "tick"]
    /\ UNCHANGED <<cache, pend, cacheFrozen>>

InitC ==
    /\ now = 0
    /\ cache = <<>>
    /\ ttl \in 1..MaxTtl
    /\ max_size \in 1..MaxSize
    /\ pend = NoValue
    /\ cres = NoCall
    /\ InitQueue
    /\ utc_offset = 0
    /\ batch_size = MaxBatchSize
    /\ cyc = [t \in Tasks |-> [pc |-> "idle", user |-> 0, i |-> 0]]
    /\ ev = Event("init", 0, <<>>, 0, FALSE)

NextC ==
    \/ \E ch \in ChannelNames : CacheGet(cache_key(ch))
    \/ \E ch \in ChannelNames : CacheSet(cache_key(ch), pages(lstrip_at(ch)))
    \/ \E ch \in ChannelNames, use_cache \in BOOLEAN : FetchCall(ch, use_cache)
    \/ /\ ~IsNone(pend)
       /\ \E r \in FetchResults(pages(lstrip_at(Val(pend).channel_username))) :
             FetchDone(r)
    \/ TickCache

SpecCache == InitC /\ [][NextC]_vars

-----------------------------------------------------------------------------
(* One fetch_with_retry call, request by request *)

\* fetch_with_retry(url) is called for the page of a channel
FwCall(channel) ==
    /\ fw.pc = "idle"
    /\ fw' = [pc |-> "request", url |-> channel, tries |-> <<>>,
              result |-> NoValue]
    /\ UNCHANGED <<now, parserVars, queueVars, cyc, ev, arg, ret, chanVars,
                   utc_offset>>

\* the request in flight meets outcome o
FwRespond(o, in_time) ==
    /\ fw.pc = "request"
    /\ fw' = fetch_attempt(fw, pages(fw.url), o, in_time)
    /\ UNCHANGED <<now, parserVars, queueVars, cyc, ev, arg, ret, chanVars,
                   utc_offset>>

\* the sleep between two tries is over: the next request is sent
FwRetry ==
    /\ fw.pc = "backoff"
    /\ fw' = [fw EXCEPT !.pc = "request"]
    /\ UNCHANGED <<now, parserVars, queueVars, cyc, ev, arg, ret, chanVars,
                   utc_offset>>

InitF ==
    /\ now = 0
    /\ cache = <<>>
    /\ ttl = cache_ttl
    /\ max_size = parser_max_size
    /\ pend = NoValue
    /\ cres = NoCall
    /\ InitQueue
    /\ utc_offset = 0
    /\ batch_size = MaxBatchSize
    /\ cyc = [t \in Tasks |-> [pc |-> "idle", user |-> 0, i |-> 0]]
    /\ ev = Event("init", 0, <<>>, 0, FALSE)

NextF ==
    \/ \E ch \in {ChanA, ChanB, ChanC} : FwCall(ch)
    \/ \E o \in Outcomes, in_time \in BOOLEAN : FwRespond(o, in_time)
    \/ FwRetry

SpecFetch == InitF /\ [][NextF]_vars

-----------------------------------------------------------------------------
(* Check cycles of a subscriber with three channels, the queue not drained *)

NextCycle ==
    \/ \E t \in Tasks : CheckStart(t, 3)
    \/ \E t \in Tasks : CheckResume(t)
    \/ \E t \in Tasks :
          /\ cyc[t].pc = "fetch"
          /\ \E r \in FetchResults(pages(lstrip_at(ChannelOf(t, cyc[t].i)))) :
                FetchReturn(t, r)
    \/ Tick

SpecCycle == Init /\ [][NextCycle]_vars

-----------------------------------------------------------------------------
(* Check cycles on hosts west of, at and east of UTC, the queue not drained *)

\* hosts west of, at and east of UTC
HostOffsets == {-1, 0, 1}

\* subscribers whose cycles are followed: 3 has three channels, 4 has one
\* whose page holds a message without a time element
FreshUsers == {3, 4}

InitH ==
    /\ now = 0
    /\ cache = <<>>
    /\ ttl = cache_ttl
    /\ max_size = parser_max_size
    /\ pend = NoValue
    /\ cres = NoCall
    /\ InitQueue
    /\ utc_offset \in HostOffsets
    /\ batch_size = MaxBatchSize
    /\ cyc = [t \in Tasks |-> [pc |-> "idle", user |-> 0, i |-> 0]]
    /\ ev = Event("init", 0, <<>>, 0, FALSE)

NextFresh ==
    \/ \E t \in Tasks, u \in FreshUsers : CheckStart(t, u)
    \/ \E t \in Tasks : CheckResume(t)
    \/ \E t \in Tasks :
          /\ cyc[t].pc = "fetch"
          /\ \E r \in FetchResults(pages(lstrip_at(ChannelOf(t, cyc[t].i)))) :
                FetchReturn(t, r)
    \/ Tick

SpecFresh == InitH /\ [][NextFresh]_vars

-----------------------------------------------------------------------------
(* A check cycle that may be abandoned, next to the drain loop *)

NextAbandon ==
    \/ CheckStart(1, 3)
    \/ CheckResume(1)
    \/ /\ cyc[1].pc = "fetch"
       /\ \E r \in FetchResults(pages(lstrip_at(ChannelOf(1, cyc[1].i)))) :
             FetchReturn(1, r)
    \/ CancelCycle(1)
    \/ StartQueue
    \/ SendOk
    \/ SendFail
    \/ Wake

SpecAbandon == Init /\ [][NextAbandon]_vars

-----------------------------------------------------------------------------
(* The extractor alone: get_channel_messages on any fetched page *)

\* a container on which a lookup of _parse_message_enhanced raises
Malformed == [kind |-> "msg", malformed |-> TRUE]
W_empty == Widget(Some(5), <<>>, Some(1), <<>>)
W_notime == Widget(Some(6), <<"x">>, NoValue, <<>>)
W_badtime == Widget(Some(7), <<"x">>, Some(Unparsable), <<>>)
W_file == Widget(Some(8), <<>>, Some(0), <<"photo">>)

Tokens == {Header, Malformed, W_empty, W_ai, W_air, W_dot, W_notime,
           W_badtime, W_file}
Htmls == UNION {[1..n -> Tokens] : n \in 0..MaxWidgets}

\* fetch_channel has returned html; the widgets are about to be parsed
ExtractCall(html, lim, t) ==
    /\ IsNone(arg)
    /\ arg' = Some([html |-> html, limit |-> lim, t |-> t])
    /\ UNCHANGED <<now, parserVars, queueVars, cyc, ev, fw, ret, chanVars,
                   utc_offset>>

\* get_channel_messages returns
ExtractReturn ==
    /\ ~IsNone(arg)
    /\ IsNone(ret)
    /\ ret' = Some(extract_messages(Val(arg).html, ChanA, Val(arg).limit,
                                    Val(arg).t))
    /\ UNCHANGED <<now, parserVars, queueVars, cyc, ev, fw, arg, chanVars,
                   utc_offset>>

NextE ==
    \/ /\ IsNone(arg)
       /\ \E html \in Htmls, lim \in {SmallLimit, limit}, t \in 0..MaxTime :
              ExtractCall(html, lim, t)
    \/ ExtractReturn

SpecExtract == InitF /\ [][NextE]_vars

-----------------------------------------------------------------------------
(* The analyzer alone: the verdict of the check cycle on one message *)

Rule(keyword, weight) == [keyword |-> keyword, weight |-> weight]
KwAi == <<"a", "i">>
KwFile == <<"$", "f", "i", "l", "e">>

TextChars == {"a", "i", " ", "\n", "."}
Texts ==
    UNION {[1..n -> TextChars] : n \in 0..MaxTextLen}
    \cup {<<"a", "i", "r">>, <<"s", "a", "i", "d">>, <<"x", ".", "a", "i">>,
          <<"A", "I">>, <<"a", "i", " ", "n", "e", "w", "s">>,
          <<"u", "n", "r", "e", "l", "a", "t", "e", "d">>}

RuleSets ==
    {<<>>, <<Rule(KwAi, 10)>>, <<Rule(KwAi, 20)>>,
     <<Rule(KwAi, 20), Rule(<<"a">>, 5)>>,
     <<Rule(KwAi, 10), Rule(KwFile, 10)>>}

\* a message of the cycle (text, has_file) meets the subscriber's rules
AnalyzeCall(text, has_file, wk, nk) ==
    /\ IsNone(arg)
    /\ arg' = Some([text |-> text, has_file |-> has_file,
                    weighted_keywords |-> wk, negative_keywords |-> nk])
    /\ UNCHANGED <<now, parserVars, queueVars, cyc, ev, fw, ret, chanVars,
                   utc_offset>>

\* analysis = analyzer.analyze_message(msg['text'], weighted, negative)
AnalyzeReturn ==
    /\ ~IsNone(arg)
    /\ IsNone(ret)
    /\ ret' = Some(analyze_message(Val(arg).text, Val(arg).weighted_keywords,
                                   Val(arg).negative_keywords))
    /\ UNCHANGED <<now, parserVars, queueVars, cyc, ev, fw, arg, chanVars,
                   utc_offset>>

NextA ==
    \/ /\ IsNone(arg)
       /\ \E text \in Texts, has_file \in BOOLEAN, wk \in RuleSets,
             nk \in {<<>>, <<<<"a">>>>} :
              AnalyzeCall(text, has_file, wk, nk)
    \/ AnalyzeReturn

SpecAnalyze == InitF /\ [][NextA]_vars

-----------------------------------------------------------------------------
(* The dedup key alone: generate_news_hash on two messages *)

\* a text of 500 characters "a" followed by tail
LongText(tail) == [i \in 1..500 |-> "a"] \o tail

HashTexts == {<<"a", "i">>, <<"a", "i", "r">>, LongText(<<>>),
              LongText(<<"x">>), LongText(<<"y">>)}

\* (msg['text'], channel, msg.get('id')) of a message of the check cycle;
\* the ids are post numbers as the channel pages carry them (from 1 on)
HashInputs ==
    [text : HashTexts, channel : {ChanA, ChanB},
     message_id : {NoValue, Some(1), Some(2), Some(12)}]

\* the cycle is about to compute the keys of two messages
HashCall(a, b) ==
    /\ arg' = Some(<<a, b>>)
    /\ UNCHANGED <<now, parserVars, queueVars, cyc, ev, fw, ret, chanVars,
                   utc_offset>>

\* news_hash = db.generate_news_hash(msg['text'], channel, msg.get('id')), twice
HashReturn ==
    /\ ~IsNone(arg)
    /\ IsNone(ret)
    /\ ret' = Some([k \in 1..2 |->
                       generate_news_hash(Val(arg)[k].text, Val(arg)[k].channel,
                                          Val(arg)[k].message_id)])
    /\ UNCHANGED <<now, parserVars, queueVars, cyc, ev, fw, arg, chanVars,
                   utc_offset>>

NextH ==
    \/ /\ IsNone(arg)
       /\ \E a \in HashInputs, b \in HashInputs : HashCall(a, b)
    \/ HashReturn

SpecHash == InitF /\ [][NextH]_vars

-----------------------------------------------------------------------------
(* The stored channels of a subscriber and the check cycle's loop over them *)

ChannelInputs == {<<"a">>, <<"@", "A">>, <<"b">>, <<"c">>, <<"d">>}

\* the add-channel dialogue ends in db.add_channel(user_id, channel)
AddChannel(user_id, channel) ==
    /\ chk.pc = "idle"
    /\ chan_table' = add_channel(chan_table, user_id, channel)
    /\ chan_table' # chan_table
    /\ UNCHANGED <<now, parserVars, queueVars, cyc, ev, fw, arg, ret, chk,
                   utc_offset>>

\* cmd_check_news up to the for loop: channels = db.get_channels(user_id);
\* `if not channels` ends the call
ChannelsStart(user_id) ==
    /\ chk.pc = "idle"
    /\ LET channels == get_channels(chan_table, user_id, 1)
       IN chk' = [pc |-> IF Len(channels) = 0 THEN "done" ELSE "loop",
                  user |-> user_id, channels |-> channels, i |-> 1,
                  processed |-> <<>>]
    /\ UNCHANGED <<now, parserVars, queueVars, cyc, ev, fw, arg, ret,
                   chan_table, utc_offset>>

\* one pass of `for i, channel in enumerate(channels, 1)`: get_fresh_messages
\* hands channel to fetch_channel, whose channel_username.lstrip('@') raises
\* AttributeError on a value that is not a str; the except clause of the loop
\* goes on with the next element
ChannelsStep ==
    /\ chk.pc = "loop"
    /\ LET channel == chk.channels[chk.i]
           processed == IF channel.type = "str"
                        THEN Append(chk.processed, channel.v)
                        ELSE chk.processed
       IN chk' = [chk EXCEPT !.processed = processed,
                             !.i = @ + 1,
                             !.pc = IF chk.i = Len(chk.channels)
                                    THEN "done" ELSE "loop"]
    /\ UNCHANGED <<now, parserVars, queueVars, cyc, ev, fw, arg, ret,
                   chan_table, utc_offset>>

NextCh ==
    \/ \E channel \in ChannelInputs : AddChannel(1, channel)
    \/ ChannelsStart(1)
    \/ ChannelsStep

SpecChannels == InitF /\ [][NextCh]_vars

-----------------------------------------------------------------------------
(* fetch_channel alone, on handles as callers may write them *)

Handles == {<<"a">>, <<"@", "a">>, <<"A">>, <<"@", "A">>, ChanP}

InitFc ==
    /\ now = 0
    /\ cache = <<>>
    /\ ttl = MaxTtl
    /\ max_size = parser_max_size
    /\ pend = NoValue
    /\ cres = NoCall
    /\ InitQueue
    /\ utc_offset = 0
    /\ batch_size = MaxBatchSize
    /\ cyc = [t \in Tasks |-> [pc |-> "idle", user |-> 0, i |-> 0]]
    /\ ev = Event("init", 0, <<>>, 0, FALSE)

NextFc ==
    \/ \E ch \in Handles, use_cache \in BOOLEAN : FetchCall(ch, use_cache)
    \/ /\ ~IsNone(pend)
       /\ \E r \in FetchResults(pages(lstrip_at(Val(pend).channel_username))) :
             FetchDone(r)
    \/ TickCache

SpecFetchChannel == InitFc /\ [][NextFc]_vars

-----------------------------------------------------------------------------
(* The weighted-keyword input alone: parse_weighted_keywords on any text *)

MaxInputLen == 4    \* longest input enumerated character by character

InputChars == {"a", ":", ",", " ", "0", "9", ".", "-"}
ShortInputs == UNION {[1..n -> InputChars] : n \in 0..MaxInputLen}

\* weights as a subscriber may write them after "ai:"
WeightTexts ==
    {<<"2", ".", "5">>, <<"0", ".", "0", "5">>, <<"0", ".", "1">>, <<"5">>,
     <<"5", ".", "0", "1">>, <<"+", "2">>, <<" ", "3", " ">>, <<"n", "a", "n">>,
     <<"i", "n", "f">>, <<"-", "i", "n", "f">>, <<"x">>, <<"1", ":", "2">>,
     <<"2", " ", "5">>}
WeightedItems == {KwAi \o <<":">> \o w : w \in WeightTexts}
LongInputs ==
    WeightedItems
    \cup {a \o <<",">> \o b : a \in WeightedItems,
                              b \in WeightedItems \cup {<<"a">>, <<>>}}
WeightInputs == ShortInputs \cup LongInputs

\* the subscriber's text is about to be parsed
WeightsCall(keywords_input) ==
    /\ IsNone(arg)
    /\ arg' = Some([keywords_input |-> keywords_input])
    /\ UNCHANGED <<now, parserVars, queueVars, cyc, ev, fw, ret, chanVars,
                   utc_offset>>

\* parse_weighted_keywords returns
WeightsReturn ==
    /\ ~IsNone(arg)
    /\ IsNone(ret)
    /\ ret' = Some(parse_weighted_keywords(Val(arg).keywords_input))
    /\ UNCHANGED <<now, parserVars, queueVars, cyc, ev, fw, arg, chanVars,
                   utc_offset>>

NextW ==
    \/ /\ IsNone(arg)
       /\ \E keywords_input \in WeightInputs : WeightsCall(keywords_input)
    \/ WeightsReturn

SpecWeights == InitF /\ [][NextW]_vars

-----------------------------------------------------------------------------
(* The table sent_news over runs of the bot: deliveries are recorded, time  *)
(* passes, and main purges the table when the bot is started again         *)

MaxDays == 2         \* cleanup_old_news is called with days in 1..MaxDays
MaxPurgeClock == 3   \* the clock of this specification stops here

HashAi == generate_news_hash(W_ai.text, ChanA, W_ai.id)
PurgeKeys == {<<1, HashAi>>, <<2, HashAi>>,
              <<1, generate_news_hash(W_air.text, ChanA, W_air.id)>>}

\* _send_batch records a delivery
RecordSent(user_id, news_hash) ==
    /\ sent_news' = mark_news_sent(sent_news, user_id, news_hash, ChanA,
                                   NoValue, now)
    /\ sent_news' # sent_news
    /\ UNCHANGED <<now, parserVars, queue, processing, stats, qpc, batch, bi,
                   sent_count, batch_size, okSends, failSends, markCalls,
                   lastAttempt, tags, cyc, ev, auxVars>>

TickPurge ==
    /\ now < MaxPurgeClock
    /\ now' = now + 1
    /\ UNCHANGED <<parserVars, queueVars, cyc, ev, auxVars>>

\* main: cleaned = db.cleanup_old_news(days=30); arg and ret keep the call
\* and what it returned
Cleanup(days) ==
    /\ IsNone(arg)
    /\ LET r == cleanup_old_news(sent_news, days, now + utc_offset)
       IN /\ sent_news' = r.db
          /\ arg' = Some([days |-> days, db |-> sent_news])
          /\ ret' = Some(r.deleted_count)
    /\ UNCHANGED <<now, parserVars, queue, processing, stats, qpc, batch, bi,
                   sent_count, batch_size, okSends, failSends, markCalls,
                   lastAttempt, tags, cyc, ev, fw, chanVars, utc_offset>>

InitP ==
    /\ now = 0
    /\ cache = <<>>
    /\ ttl = cache_ttl
    /\ max_size = parser_max_size
    /\ pend = NoValue
    /\ cres = NoCall
    /\ InitQueue
    /\ utc_offset \in HostOffsets
    /\ batch_size = MaxBatchSize
    /\ cyc = [t \in Tasks |-> [pc |-> "idle", user |-> 0, i |-> 0]]
    /\ ev = Event("init", 0, <<>>, 0, FALSE)

NextP ==
    \/ \E p \in PurgeKeys : RecordSent(p[1], p[2])
    \/ TickPurge
    \/ \E days \in 1..MaxDays : Cleanup(days)

SpecPurge == InitP /\ [][NextP]_vars

-----------------------------------------------------------------------------
(* The weighted-keyword input of a subscriber and a check cycle after it *)

KwWar == <<"w", "a", "r">>

\* "term", "term:5", "term:0.1", "term:x" for the terms ai, AI and war
RuleTexts ==
    {k \o w : k \in {KwAi, <<"A", "I">>, KwWar},
              w \in {<<>>, <<":", "5">>, <<":", "0", ".", "1">>, <<":", "x">>}}
RuleInputs ==
    RuleTexts \cup {a \o <<",", " ">> \o b : a \in RuleTexts, b \in RuleTexts}

\* the subscriber sends the text in state waiting_for_weighted_keywords; the
\* rows stored before are those of DEFAULT_KEYWORDS
KeywordsInput(text) ==
    /\ IsNone(arg)
    /\ arg' = Some([text |-> text,
                    keywords |->
                        process_weighted_keywords_input(DEFAULT_KEYWORDS, text)])
    /\ UNCHANGED <<now, parserVars, queueVars, cyc, ev, fw, ret, chanVars,
                   utc_offset>>

\* a later cmd_check_news of the subscriber has processed the page of
\* `channel`: the rules it scored with and the queue it leaves
CheckAfterInput(channel) ==
    /\ ~IsNone(arg)
    /\ IsNone(ret)
    /\ ret' = Some([channel |-> channel,
                    rules |-> weighted(Val(arg).keywords),
                    queue |-> add_news_batch(
                        <<>>, 1,
                        FoundNewsWith([keywords |-> Val(arg).keywords,
                                       negative |-> <<>>],
                                      1, channel, pages(channel), {},
                                      MaxTime + utc_offset),
                        1)])
    /\ UNCHANGED <<now, parserVars, queueVars, cyc, ev, fw, arg, chanVars,
                   utc_offset>>

NextK ==
    \/ /\ IsNone(arg)
       /\ \E text \in RuleInputs : KeywordsInput(text)
    \/ \E channel \in {ChanA, ChanB} : CheckAfterInput(channel)

SpecKeywords == InitF /\ [][NextK]_vars

-----------------------------------------------------------------------------
(* Properties of the bot (under Spec) *)

KeyOf(item) == <<item.user_id, item.news_item.hash>>
Keys == DOMAIN okSends \cup DOMAIN failSends
Recorded(p) == is_news_sent(sent_news, p[1], p[2])

\* the hash of the message of channel A that stays fresh during a behaviour
HashAir == generate_news_hash(W_air.text, ChanA, W_air.id)

\* the step is a send that raises / a send that returns / the processing of
\* one channel by a check cycle
SendFailed == failSends' # failSends
SendSucceeded == okSends' # okSends
Checked == cyc' # cyc /\ ev'.type = "checked"

\* the entries put into the queue by the step
Enqueued == SubSeq(queue', Len(queue) + 1, Len(queue'))

C3_RecordAfterSuccessfulSend ==
    [][/\ markCalls = okSends
       /\ \A r \in sent_news : Count(okSends, <<r.user_id, r.news_hash>>) >= 1
       /\ (sent_news' # sent_news \/ markCalls' # markCalls)
             => /\ qpc = "sending"
                /\ ev'.type = "send_ok"
                /\ qpc' = "item_sleep"
                /\ Count(markCalls', CurKey) = Count(markCalls, CurKey) + 1
                /\ Recorded(CurKey)'
       /\ SendSucceeded => Count(markCalls', CurKey) = Count(markCalls, CurKey) + 1
      ]_vars

\* C3 witness: an item has been delivered and recorded, the loop is in the
\* pause that precedes the next item of the batch.
C3_Witness ==
    /\ ev.type = "send_ok"
    /\ qpc = "item_sleep"
    /\ bi < Len(batch)
    /\ Recorded(CurKey)
    /\ Count(markCalls, CurKey) = 1

\* C4: once a key has been sent successfully to a subscriber it is reported
\* as sent, and no later check for that subscriber enqueues it again.
C4_SeenAfterSend ==
    [][/\ \A p \in DOMAIN okSends : okSends[p] >= 1 => Recorded(p)
       /\ Checked
             => \A j \in 1..Len(Enqueued) : Count(okSends, KeyOf(Enqueued[j])) = 0
      ]_vars

\* C4 witness: after the message was delivered to the subscriber, a check
\* obtained the page (whose only fresh message it is by now) and enqueued
\* nothing.
C4_Witness ==
    /\ ev.type = "checked"
    /\ ev.got
    /\ ev.n = 0
    /\ now = MaxTime
    /\ Count(okSends, <<ev.user, HashAir>>) >= 1

\* C5: recording a key that is already recorded changes nothing, whatever
\* the other fields of the second call, and recording twice equals recording
\* once.
C5_RecordIdempotent ==
    /\ \A r \in sent_news, c \in {ChanA, ChanB}, m \in {NoValue, Some(7)}, t \in 0..MaxTime :
          mark_news_sent(sent_news, r.user_id, r.news_hash, c, m, t) = sent_news
    /\ \A u \in Users, t \in 0..MaxTime :
          LET once == mark_news_sent(sent_news, u, HashAir, ChanA, W_air.id, now)
          IN mark_news_sent(once, u, HashAir, ChanA, W_air.id, t) = once
    /\ \A p \in DOMAIN markCalls :
          Cardinality({r \in sent_news : <<r.user_id, r.news_hash>> = p}) = 1

\* C5 witness: mark_news_sent has been called twice for one key, at two
\* different times, and the table holds the one record of the first call.
C5_Witness ==
    \E p \in DOMAIN markCalls :
        /\ markCalls[p] = 2
        /\ ev.type = "send_ok"
        /\ \E r \in sent_news : <<r.user_id, r.news_hash>> = p /\ r.sent_at < now

\* C6: a send that raises does not end the batch or the loop: the send of the
\* next item of the batch starts in the same step, a batch is left only when
\* all its items have had their attempt, and after the last item the loop is
\* at its head again (it sends the head of the queue, or sleeps before
\* pulling again) unless stop_processing was called.
C6_FailureDoesNotAbort ==
    [][/\ (SendFailed /\ bi < Len(batch))
             => qpc' = "sending" /\ batch' = batch /\ bi' = bi + 1
       /\ (SendFailed /\ bi = Len(batch) /\ processing)
             => \/ sent_count > 0 /\ qpc' = "batch_sleep"
                \/ /\ sent_count = 0 /\ queue = <<>>
                   /\ qpc' = "idle_sleep"
                \/ /\ sent_count = 0 /\ queue # <<>>
                   /\ qpc' = "sending" /\ bi' = 1
                   /\ batch' = Take(queue, batch_size)
                   /\ batch' \o queue' = queue
       /\ batch' # batch => bi = Len(batch)
       /\ (batch' = batch /\ bi' # bi) => bi' = bi + 1
      ]_vars

\* C6 witness: the send of an item has raised and the send of the item after
\* it in the same batch is under way.
C6_Witness ==
    /\ ev.type = "send_fail"
    /\ qpc = "sending"
    /\ bi >= 2
    /\ ev.hash = batch[bi - 1].news_item.hash
    /\ Count(failSends, <<ev.user, ev.hash>>) >= 1

-----------------------------------------------------------------------------
(* Properties of the queue manager (under SpecQueue) *)

\* C7: the send attempts for the items of one add_news_batch call come in
\* non-increasing order of score, whatever batch_size splits them into.
C7_DrainedByScore ==
    [][\A g \in DOMAIN lastAttempt :
          /\ g \in DOMAIN lastAttempt'
          /\ lastAttempt'[g] <= lastAttempt[g]
      ]_vars

\* C7 witness: the item that was first of three in the news_items passed,
\* with the lowest score, is sent last, alone in a later drain batch than
\* the two items that were passed after it.
C7_Witness ==
    /\ qpc = "sending"
    /\ batch_size = 2
    /\ Len(batch) = 1
    /\ CurItem.pos = 1
    /\ ScoreOf(CurItem) = 100
    /\ lastAttempt[CurItem.tag] = 100
    /\ \A j \in 1..Len(queue) : queue[j].tag # CurItem.tag

-----------------------------------------------------------------------------
(* Properties of the cache (under SpecCache) *)

AgeOf(key) == now - EntryOf(cache, key).timestamp
Lookup == cres'.op \in {"get", "fetch"}

\* C8: a lookup returns content only from an entry of the key that is not
\* older than ttl, and returns the content of that entry; get of an entry of
\* age at most ttl - 1 is a hit that leaves the cache as it is; get of an
\* entry of age at least ttl + 1 is a miss that removes that entry and no
\* other.
C8_CacheTtl ==
    [][/\ (Lookup /\ cres'.hit)
             => /\ HasKey(cache, cres'.key)
                /\ AgeOf(cres'.key) <= ttl
                /\ cres'.data = EntryOf(cache, cres'.key).data
       /\ (cres'.op = "get" /\ HasKey(cache, cres'.key)
              /\ AgeOf(cres'.key) <= ttl - 1)
             => cres'.hit /\ cache' = cache
       /\ (cres'.op = "get" /\ HasKey(cache, cres'.key)
              /\ AgeOf(cres'.key) >= ttl + 1)
             => /\ ~cres'.hit
                /\ cres'.data = NoValue
                /\ KeysOf(cache') = KeysOf(cache) \ {cres'.key}
                /\ Len(cache') = Len(cache) - 1
      ]_vars

\* C8 witness: a get has found an entry of age ttl + 1, returned nothing and
\* removed the entry.
C8_Witness ==
    /\ cres.op = "get"
    /\ cres.had
    /\ cres.age = Some(ttl + 1)
    /\ ~cres.hit
    /\ cres.evicted = {cres.key}
    /\ ~HasKey(cache, cres.key)

\* C9: the cache never holds more than max_size entries, and a step that
\* puts a key that was not cached into a cache of max_size entries removes
\* exactly one entry, one whose timestamp no other entry's is below.
C9_CacheCapacity ==
    [][/\ Len(cache) <= max_size
       /\ Len(cache') <= max_size
       /\ \A k \in KeysOf(cache') \ KeysOf(cache) :
             Len(cache) = max_size
                => \E old \in KeysOf(cache) :
                      /\ KeysOf(cache') = (KeysOf(cache) \ {old}) \cup {k}
                      /\ Len(cache') = max_size
                      /\ \A i \in 1..Len(cache) :
                            EntryOf(cache, old).timestamp <= cache[i].timestamp
      ]_vars

\* C9 witness: a set of a key that was not cached has removed the older of
\* the two entries of a full cache.
C9_Witness ==
    /\ cres.op = "set"
    /\ ~cres.had
    /\ max_size >= 2
    /\ Len(cache) = max_size
    /\ Cardinality(cres.evicted) = 1
    /\ \A i \in 1..Len(cache) :
          cache[i].key # cres.key => cache[i].timestamp < now
    /\ EntryOf(cache, cres.key).timestamp = now

\* a call of fetch_channel begins in this step, while the cache holds an
\* unexpired entry for its channel
FetchOfCached ==
    /\ cres'.op \in {"fetch", "request"}
    /\ HasKey(cache, cres'.key)
    /\ AgeOf(cres'.key) < ttl

ServedFromCache ==
    /\ cres'.op = "fetch"
    /\ ~cres'.net
    /\ IsNone(pend')
    /\ cres'.data = EntryOf(cache, cres'.key).data

\* C10 as stated: every fetch_channel call that finds an unexpired entry for
\* its channel returns the cached content without a network request.
C10_AlwaysCacheFirst ==
    [][FetchOfCached => ServedFromCache]_vars

\* C10: a fetch_channel call with use_cache true (the default, the one the
\* check cycle makes) that finds an unexpired entry for its channel returns
\* the cached content without a network request.
C10_CacheFirstWhenUsed ==
    [][(FetchOfCached /\ cres'.use_cache) => ServedFromCache]_vars

\* C10 witness: a fetch_channel call with use_cache true has returned the
\* cached page of its channel, no request is pending.
C10_Witness ==
    /\ cres.op = "fetch"
    /\ cres.use_cache
    /\ cres.had
    /\ cres.hit
    /\ ~cres.net
    /\ IsNone(pend)
    /\ cres.data = EntryOf(cache, cres.key).data

-----------------------------------------------------------------------------
(* Properties of the fetcher (under SpecFetch and SpecCache) *)

LastTry(f) == f.tries[Len(f.tries)]

\* C11: a fetch_with_retry call makes at most 3 requests, every request that
\* is followed by another one ended in a timeout or a transport error, and a
\* request that meets status 200 or 404 is the last one of the call, which
\* returns the page or nothing.
C11_RetryDiscipline ==
    [][/\ Len(fw'.tries) <= 3
       /\ \A i \in 1..(Len(fw'.tries) - 1) : fw'.tries[i] \in {"timeout", "error"}
       /\ (fw'.pc \in {"backoff", "request"} /\ fw'.tries # <<>>)
             => LastTry(fw') \in {"timeout", "error"}
       /\ (fw.pc = "request" /\ fw'.tries # fw.tries /\ LastTry(fw') = "200")
             => /\ fw'.pc = "done"
                /\ Val(fw'.result) = [kind |-> "html", html |-> pages(fw.url)]
       /\ (fw.pc = "request" /\ fw'.tries # fw.tries /\ LastTry(fw') = "404")
             => fw'.pc = "done" /\ Val(fw'.result).kind = "none"
      ]_vars

\* C11 witness: a call has ended with the page at its third request, after a
\* timeout and a transport error.
C11_Witness ==
    /\ fw.pc = "done"
    /\ fw.tries = <<"timeout", "error", "200">>
    /\ Val(fw.result).kind = "html"

\* C12: a request that meets a status other than 200 and 404 is followed by
\* another request unless it was the third, and a request that meets 404
\* ends the call with nothing.
C12_ErrorStatusRetried ==
    [][(fw.pc = "request" /\ fw'.tries # fw.tries)
          => /\ (LastTry(fw') = "500" /\ Len(fw'.tries) < 3) => fw'.pc # "done"
             /\ LastTry(fw') = "404"
                   => fw'.pc = "done" /\ Val(fw'.result).kind = "none"
      ]_vars

\* the channel name of a cache key
NameOfKey(key) == Tail(key)

\* in this state a later fetch_channel call for the channel of the last
\* call, with use_cache true and less than ttl from now, returns the
\* content of the last call without a request
RefetchIsHit ==
    /\ HasKey(cache, cres.key)
    /\ EntryOf(cache, cres.key).data = cres.data
    /\ \A d \in 0..(ttl - 1) :
          LET b == fetch_channel_begin(cache, NameOfKey(cres.key), TRUE, now + d)
          IN b.returned /\ b.html = cres.data

\* C13 as stated: after every fetch_channel call that obtained content from
\* the network the content is cached under the channel's key, and a fetch
\* of the channel within ttl is a hit without a request.
C13_EveryFetchStored ==
    (cres.op = "fetched" /\ cres.data # <<>>) => RefetchIsHit

\* C13: after every fetch_channel call with use_cache true (the default, the
\* one the check cycle makes) that obtained content from the network the
\* content is cached under the channel's key, and a fetch of the channel
\* within ttl is a hit without a request.
C13_FetchStoredWhenCacheUsed ==
    (cres.op = "fetched" /\ cres.use_cache /\ cres.data # <<>>) => RefetchIsHit

\* C13 witness: a fetch_channel call with use_cache true has returned the
\* page it got from the network, the cache was full before (the entry was
\* not there) and holds the page now.
C13_Witness ==
    /\ cres.op = "fetched"
    /\ cres.use_cache
    /\ cres.data # <<>>
    /\ ~cres.had
    /\ cres.evicted # {}
    /\ EntryOf(cache, cres.key).timestamp = now
    /\ EntryOf(cache, cres.key).data = pages(NameOfKey(cres.key))

-----------------------------------------------------------------------------
(* Properties of the check cycle (under SpecCycle) *)

HashDot == generate_news_hash(W_dot.text, ChanB, W_dot.id)
HashVeto == generate_news_hash(W_veto.text, ChanB, W_veto.id)

\* the channel whose processing ends in this step of cycle t
Processed(t) == user_channels(cyc'[t].user)[cyc'[t].i]

InQueue(user_id, hash) ==
    \E j \in 1..Len(queue) : KeyOf(queue[j]) = <<user_id, hash>>

C20_NegativeTermVetoes ==
    [][Checked
          => \A j \in 1..Len(Enqueued) :
                LET e == Enqueued[j]
                    kw == get_keywords(e.user_id)
                    tl == LowerText(e.news_item.message.text)
                IN /\ \A n \in 1..Len(kw.negative) :
                         ~Contains(tl, LowerText(kw.negative[n]))
                   /\ e.news_item.analysis.negative_score = 0
                   /\ \E k \in 1..Len(kw.keywords) :
                         Contains(tl, LowerText(kw.keywords[k]))
      ]_vars

\* C20 witness: the check of channel B has enqueued the message without a
\* negative term and not the one whose positive score (4.0) exceeds its
\* suppression score (1.5) by more than the threshold.
C20_Witness ==
    /\ ev.type = "checked"
    /\ ev.got
    /\ ev.user = 3
    /\ \E t \in Tasks : cyc[t].pc = "sleep" /\ cyc[t].i = 1
    /\ InQueue(3, HashDot)
    /\ ~InQueue(3, HashVeto)
    /\ LET a == analyze_message(W_veto.text, weighted(get_keywords(3).keywords),
                                get_keywords(3).negative)
       IN a.relevant /\ a.total_score = 400 /\ a.negative_score = 150

-----------------------------------------------------------------------------
(* Properties of the extractor (under SpecExtract) *)

\* the message containers of a page, in document order
Containers(html) ==
    SelectIdx(html, {i \in 1..Len(html) : html[i].kind = "msg"}, 1)

\* a container that parses and has text or an attached file
WellFormed(w) ==
    /\ "malformed" \notin DOMAIN w
    /\ w.text # <<>> \/ w.file_types # <<>>

\* m is the Message of container w
MessageOf(m, w) ==
    /\ m.text = w.text
    /\ m.id = w.id
    /\ m.file_types = w.file_types
    /\ m.has_file = (w.file_types # <<>>)

Perms(n) == {f \in [1..n -> 1..n] : \A a, b \in 1..n : f[a] = f[b] => a = b}

\* res holds exactly one Message per well-formed non-empty container of ws
OneMessagePer(res, ws) ==
    LET wf == SelectIdx(ws, {i \in 1..Len(ws) : WellFormed(ws[i])}, 1)
    IN /\ Len(res) = Len(wf)
       /\ \E f \in Perms(Len(wf)) :
              \A k \in 1..Len(wf) : MessageOf(res[k], wf[f[k]])

\* timestamps never increase along res
TimeDescending(res) ==
    \A k \in 1..(Len(res) - 1) :
        (~IsNone(res[k].timestamp) /\ ~IsNone(res[k + 1].timestamp))
            => Val(res[k].timestamp) >= Val(res[k + 1].timestamp)

\* C15 as stated: for any list of message containers, a malformed container
\* is skipped without aborting the extraction, and the result holds exactly
\* one Message per well-formed non-empty container, in timestamp-descending
\* order
C15_OnePerContainer ==
    ~IsNone(ret) =>
        /\ OneMessagePer(Val(ret), Containers(Val(arg).html))
        /\ TimeDescending(Val(ret))

\* C15 amended: the same of the first `limit` message containers of the page
\* (the containers after them are not parsed)
C15_OnePerContainerWithinLimit ==
    ~IsNone(ret) =>
        /\ OneMessagePer(Val(ret),
                         Take(Containers(Val(arg).html), Val(arg).limit))
        /\ TimeDescending(Val(ret))

\* a page with a malformed, an empty and a well-formed container has been
\* extracted, and the well-formed one came out
C15_Witness ==
    /\ ~IsNone(ret)
    /\ Val(arg).html = <<Malformed, W_empty, W_air>>
    /\ Val(arg).limit = limit
    /\ Len(Val(ret)) = 1
    /\ MessageOf(Val(ret)[1], W_air)

\* C16: the extracted messages are sorted by timestamp, newest first; a
\* message without timestamp counts as the minimum and so comes after every
\* message that has one; messages with equal timestamps (or both without)
\* keep their document order
C16_SortContract ==
    ~IsNone(ret) =>
        LET res == Val(ret)
            ws == Take(Containers(Val(arg).html), Val(arg).limit)
        IN \A k, l \in 1..Len(res) :
               k < l =>
                   /\ IsNone(res[k].timestamp) => IsNone(res[l].timestamp)
                   /\ (~IsNone(res[k].timestamp) /\ ~IsNone(res[l].timestamp))
                          => Val(res[k].timestamp) >= Val(res[l].timestamp)
                   /\ (res[k].timestamp = res[l].timestamp /\ res[k] # res[l])
                          => \E i, j \in 1..Len(ws) :
                                 /\ i < j
                                 /\ WellFormed(ws[i]) /\ MessageOf(res[k], ws[i])
                                 /\ WellFormed(ws[j]) /\ MessageOf(res[l], ws[j])

\* a page whose first container has no timestamp and whose next two share
\* one has been extracted: the two come first in document order, the one
\* without timestamp last
C16_Witness ==
    /\ ~IsNone(ret)
    /\ Val(arg).html = <<W_notime, W_air, W_dot>>
    /\ Val(arg).limit = limit
    /\ Len(Val(ret)) = 3
    /\ MessageOf(Val(ret)[1], W_air)
    /\ MessageOf(Val(ret)[2], W_dot)
    /\ MessageOf(Val(ret)[3], W_notime)

-----------------------------------------------------------------------------
(* Properties of the analyzer (under SpecAnalyze) *)

\* the places of the lower-cased text t where kw starts
Occurrences(t, kw) ==
    {i \in 1..(Len(t) - Len(kw) + 1) : SubSeq(t, i, i + Len(kw) - 1) = kw}

\* the characters before and after the occurrence at i satisfy Delim; an
\* end of the text delimits as well
Delimited(t, kw, i, Delim(_)) ==
    /\ i = 1 \/ Delim(t[i - 1])
    /\ i + Len(kw) > Len(t) \/ Delim(t[i + Len(kw)])

IsWhitespace(ch) == ch \in {" ", "\n"}
NotAlnum(ch) == ~IsAlnum(ch)

\* the factor (in tenths) of the highest match mode of kw in t: 2.0 whole
\* word between whitespace, 1.5 between non-alphanumeric characters, 1.0
\* bare substring, 0 no occurrence
ModeFactor(t, kw) ==
    IF \E i \in Occurrences(t, kw) : Delimited(t, kw, i, IsWhitespace) THEN 20
    ELSE IF \E i \in Occurrences(t, kw) : Delimited(t, kw, i, NotAlnum) THEN 15
    ELSE IF Occurrences(t, kw) # {} THEN 10
    ELSE 0

\* C17: each positive term contributes weight times the factor of the
\* highest match mode that applies to the text (2.0 whole word between
\* whitespace, 1.5 non-alphanumeric boundary, 1.0 bare substring, else 0),
\* once, and the total positive score is the sum of the contributions
C17_HighestModeOnce ==
    ~IsNone(ret) =>
        LET t == LowerText(Val(arg).text)
            wk == Val(arg).weighted_keywords
        IN Val(ret).total_score =
               SumSeq([k \in 1..Len(wk) |->
                          wk[k].weight * ModeFactor(t, LowerText(wk[k].keyword))])

\* the call under the single positive rule ("ai", 2.0) and no negative term
\* on text has returned score
ScoredAi(text, score) ==
    (/\ ~IsNone(ret)
     /\ Val(arg).weighted_keywords = <<Rule(KwAi, 20)>>
     /\ Val(arg).negative_keywords = <<>>
     /\ Val(arg).text = text)
        => Val(ret).score = score

\* C18 as stated: under the rule ("ai", 2.0) a text with "ai" as a whole
\* word scores 4.0, the text "air" scores 3.0 and the text "said" scores 2.0
C18_TieBreakExample ==
    /\ ScoredAi(<<"a", "i">>, 400)
    /\ ScoredAi(<<"a", "i", " ", "n", "e", "w", "s">>, 400)
    /\ ScoredAi(<<"a", "i", "r">>, 300)
    /\ ScoredAi(<<"s", "a", "i", "d">>, 200)

\* C18 amended: under the rule ("ai", 2.0) a text with "ai" as a whole word
\* scores 4.0, the text "air" scores 2.0 (the letter r follows the term, so
\* it is a bare substring) and the text "said" scores 2.0
C18_TieBreakExampleBare ==
    /\ ScoredAi(<<"a", "i">>, 400)
    /\ ScoredAi(<<"a", "i", " ", "n", "e", "w", "s">>, 400)
    /\ ScoredAi(<<"a", "i", "r">>, 200)
    /\ ScoredAi(<<"s", "a", "i", "d">>, 200)

\* the text "air" has been scored under the rule ("ai", 2.0)
C18_Witness ==
    /\ ~IsNone(ret)
    /\ Val(arg).weighted_keywords = <<Rule(KwAi, 20)>>
    /\ Val(arg).negative_keywords = <<>>
    /\ Val(arg).text = <<"a", "i", "r">>
    /\ Val(ret).score = 200

\* C19: with the rules ["ai"] and the file sentinel and no negative term, a
\* message that carries a file is relevant even without a text match, a
\* message whose text matches is relevant without a file, and a message with
\* neither is not relevant
C19_FileSentinelOr ==
    (/\ ~IsNone(ret)
     /\ Val(arg).weighted_keywords = <<Rule(KwAi, 10), Rule(KwFile, 10)>>
     /\ Val(arg).negative_keywords = <<>>)
        => Val(ret).relevant =
               (\/ Val(arg).has_file
                \/ Occurrences(LowerText(Val(arg).text), KwAi) # {})

\* what a negative term adds to the suppression score: 3.0 for a whole-word
\* match, 1.5 for a bare substring match
Suppression(t, kw) ==
    IF \E i \in Occurrences(t, kw) : Delimited(t, kw, i, IsWhitespace) THEN 300
    ELSE IF Occurrences(t, kw) # {} THEN 150
    ELSE 0

\* C21: the verdict is relevant exactly when the total positive score minus
\* the suppression score exceeds 0.5, each negative term adding 3.0 for a
\* whole-word match and 1.5 for a bare substring match; the reported score
\* is max(0, positive - suppression) and never negative
C21_WeightedDeduction ==
    ~IsNone(ret) =>
        LET t == LowerText(Val(arg).text)
            nk == Val(arg).negative_keywords
            positive == Val(ret).total_score
            suppression ==
                SumSeq([k \in 1..Len(nk) |-> Suppression(t, LowerText(nk[k]))])
        IN /\ Val(ret).relevant = (positive - suppression > 50)
           /\ Val(ret).score = Max(0, positive - suppression)
           /\ Val(ret).score >= 0

-----------------------------------------------------------------------------
(* Properties of the drain loop (under SpecQueueFair and SpecQueue) *)

\* stop_processing has been called on the running drain loop
StopRequested == ~processing /\ qpc # "init"

\* C22: once stop_processing() is called the drain loop eventually exits,
\* and the item being sent at that moment is finished: its send either
\* succeeds and is recorded or raises, the loop is never left from the
\* middle of a send
C22_CooperativeStop ==
    /\ StopRequested ~> (qpc = "stopped")
    /\ [][(StopRequested /\ qpc = "sending" /\ qpc' # "sending")
              => \/ SendSucceeded /\ Recorded(CurKey)' /\ qpc' = "item_sleep"
                 \/ SendFailed]_vars

\* the loop was asked to stop while an item was being sent, and the item has
\* been sent and recorded
C22_Witness ==
    /\ StopRequested
    /\ qpc = "item_sleep"
    /\ ev.type = "send_ok"
    /\ Recorded(<<ev.user, ev.hash>>)

-----------------------------------------------------------------------------
(* Properties of the dedup key (under SpecHash) *)

\* C23: the key is a function of its inputs; of two messages of one channel
\* that both have an external identifier, equal ids give equal keys whatever
\* the texts and different ids give different keys; of two messages of one
\* channel without identifier, equal 500-character prefixes of the text give
\* equal keys
C23_DedupKeyIdentity ==
    ~IsNone(ret) =>
        LET a == Val(arg)[1]
            b == Val(arg)[2]
            ka == Val(ret)[1]
            kb == Val(ret)[2]
        IN /\ a = b => ka = kb
           /\ (a.channel = b.channel /\ ~IsNone(a.message_id)
                   /\ ~IsNone(b.message_id))
                  => (ka = kb) = (a.message_id = b.message_id)
           /\ (a.channel = b.channel /\ IsNone(a.message_id)
                   /\ IsNone(b.message_id)
                   /\ \A i \in 1..500 :
                          /\ (i <= Len(a.text)) = (i <= Len(b.text))
                          /\ i <= Len(a.text) => a.text[i] = b.text[i])
                  => ka = kb

\* two messages of one channel with the same id and different texts got
\* the same key
C23_Witness ==
    /\ ~IsNone(ret)
    /\ Val(ret)[1] = Val(ret)[2]
    /\ Val(arg)[1].channel = Val(arg)[2].channel
    /\ Val(arg)[1].text # Val(arg)[2].text
    /\ Val(arg)[1].message_id = Some(12)
    /\ Val(arg)[2].message_id = Some(12)

-----------------------------------------------------------------------------
(* Properties of the loop over the stored channels (under SpecChannels) *)

\* C24: a check cycle processes every channel stored for the subscriber
\* exactly once, in the order in which the channels were added
C24_StoredOrder ==
    chk.pc = "done" => chk.processed = get_all_channels(chan_table, chk.user)

-----------------------------------------------------------------------------
(* Properties of the queue counters (under SpecQueue) *)

\* the sum of the counts of a history function
RECURSIVE Total(_)
Total(f) ==
    IF DOMAIN f = {} THEN 0
    ELSE LET p == CHOOSE x \in DOMAIN f : TRUE
         IN f[p] + Total([x \in DOMAIN f \ {p} |-> f[x]])

\* the drain loop is between two batches or has returned
BetweenBatches == qpc \in {"batch_sleep", "idle_sleep", "stopped"}

\* the sent counter equals the number of sends that succeeded
SentCounted == BetweenBatches => stats.sent = Total(okSends)

\* C25: after any run of the drain loop the failed counter equals the number
\* of items whose send raised an error, and the sent counter equals the
\* number of items whose send succeeded
C25_SendsCounted ==
    BetweenBatches =>
        /\ stats.failed = Total(failSends)
        /\ stats.sent = Total(okSends)

-----------------------------------------------------------------------------
(* Frame properties of the cache (under SpecCache) *)

\* C26: a read that hits changes nothing in the cache: the entry keeps its
\* fetch timestamp, every other entry stays, and so the entry a capacity
\* eviction would remove is the same after the read as before it
C26_ReadKeepsRecency ==
    [][(Lookup /\ cres'.hit)
          => /\ cache' = cache
             /\ EntryOf(cache', cres'.key).timestamp
                    = EntryOf(cache, cres'.key).timestamp
             /\ OldestKey(cache') = OldestKey(cache)
      ]_vars

\* a get has hit the older of the two entries of a full cache some time
\* after it was stored, and that entry is still the one to be evicted
C26_Witness ==
    /\ cres.op = "get"
    /\ cres.hit
    /\ cres.age = Some(1)
    /\ max_size = 2
    /\ Len(cache) = 2
    /\ OldestKey(cache) = cres.key
    /\ \E i \in 1..2 : cache[i].timestamp > EntryOf(cache, cres.key).timestamp

\* C27: a set for a key that is already cached replaces that key's entry and
\* removes no other key's entry, also when the cache holds max_size entries
C27_RefreshEvictsNothing ==
    [][(cres'.op = "set" /\ HasKey(cache, cres'.key))
          => /\ KeysOf(cache') = KeysOf(cache)
             /\ EntryOf(cache', cres'.key).timestamp = now
             /\ \A i \in 1..Len(cache) :
                    cache[i].key # cres'.key
                        => EntryOf(cache', cache[i].key) = cache[i]
      ]_vars

-----------------------------------------------------------------------------
(* Properties of fetch_channel (under SpecFetchChannel) *)

\* the normalized form of a handle: lower-cased, no leading @
Normalized(name) == LowerText(lstrip_at(name))

\* a fetch_channel call with use_cache true begins in this step
CachedFetchOf(name) ==
    /\ cres'.op \in {"fetch", "request"}
    /\ cres'.use_cache
    /\ cres'.name = name

\* the call that begins in this step is a hit on entry e
HitOn(e) ==
    /\ cres'.op = "fetch"
    /\ cres'.hit
    /\ cres'.key = e.key
    /\ cres'.data = e.data

\* C28 as stated: the cache key of a fetch is the normalized handle
\* (lower-cased, leading @ removed), so a fetch that uses the cache while the
\* cache holds an unexpired entry for the same normalized handle is a hit on
\* that entry
C28_NormalizedCacheKey ==
    [][\A name \in Handles :
           /\ CachedFetchOf(name)
                  => cres'.key = <<"html:">> \o Normalized(name)
           /\ \A i \in 1..Len(cache) :
                  (/\ CachedFetchOf(name)
                   /\ cache[i].key = <<"html:">> \o Normalized(name)
                   /\ now - cache[i].timestamp < ttl)
                      => HitOn(cache[i])
      ]_vars

\* C28 amended: the cache key of a fetch is the handle without leading @, in
\* the letter case it was passed in, so a fetch that uses the cache while the
\* cache holds an unexpired entry for the same handle up to a leading @ is a
\* hit on that entry
C28_MarkerStrippedCacheKey ==
    [][\A name \in Handles :
           /\ CachedFetchOf(name)
                  => cres'.key = <<"html:">> \o lstrip_at(name)
           /\ \A i \in 1..Len(cache) :
                  (/\ CachedFetchOf(name)
                   /\ cache[i].key = <<"html:">> \o lstrip_at(name)
                   /\ now - cache[i].timestamp < ttl)
                      => HitOn(cache[i])
      ]_vars

\* a fetch of the handle "@a" has been served from the entry of "a", while
\* the cache holds a separate entry for "A"
C28_Witness ==
    /\ cres.op = "fetch"
    /\ cres.hit
    /\ cres.name = <<"@", "a">>
    /\ cres.key = <<"html:", "a">>
    /\ HasKey(cache, <<"html:", "A">>)

\* the page carries a notice that the channel is private or access is denied
HasPrivateMarker(html) ==
    \E i \in 1..Len(html) : "private" \in DOMAIN html[i]

\* C29: a fetched page that carries a private/restricted marker is a
\* terminal failure of fetch: it is not returned to the caller as channel
\* content and not stored in the cache as the channel's content
C29_PrivatePageIsFailure ==
    /\ cres.op \in {"fetch", "fetched"} => ~HasPrivateMarker(cres.data)
    /\ \A i \in 1..Len(cache) : ~HasPrivateMarker(cache[i].data)

-----------------------------------------------------------------------------
(* The Message invariant (under SpecExtract) *)

\* C30: every Message the extractor produces has non-empty text or at least
\* one file-type flag, and its has_file is true exactly when its file-type
\* list is non-empty
C30_MessageInvariant ==
    ~IsNone(ret) =>
        \A k \in 1..Len(Val(ret)) :
            LET m == Val(ret)[k]
            IN /\ m.text # <<>> \/ m.file_types # <<>>
               /\ m.has_file = (Len(m.file_types) > 0)

\* a page with an empty container, a photo without text and a text without
\* file has been extracted: the empty one is gone, the other two are there
C30_Witness ==
    /\ ~IsNone(ret)
    /\ Val(arg).html = <<W_empty, W_file, W_air>>
    /\ Val(arg).limit = limit
    /\ Len(Val(ret)) = 2
    /\ \E k \in 1..2 : Val(ret)[k].text = <<>> /\ Val(ret)[k].has_file
    /\ \E k \in 1..2 : Val(ret)[k].text # <<>> /\ ~Val(ret)[k].has_file

-----------------------------------------------------------------------------
(* Properties of the weighted-keyword input (under SpecWeights) *)

InRange(w) == w.kind = "num" /\ Tenths(1).v <= w.v /\ w.v <= Tenths(50).v

\* the bound of [0.1, 5.0] nearest to a number outside of it, the number
\* itself inside
Nearest(w) ==
    CASE w.kind = "inf" -> IF w.v > 0 THEN Tenths(50) ELSE Tenths(1)
      [] w.v < Tenths(1).v -> Tenths(1)
      [] w.v > Tenths(50).v -> Tenths(50)
      [] OTHER -> w

Colons(s) == Cardinality({i \in 1..Len(s) : s[i] = ":"})

\* what the claim says of an input that is one item "term" or "term:weight"
ItemAsClaimed(item, out) ==
    LET s == Strip(item)
        c == CHOOSE i \in 1..Len(s) : s[i] = ":"
        term == Strip(SubSeq(s, 1, c - 1))
        w == PyFloat(SubSeq(s, c + 1, Len(s)))
    IN CASE Colons(s) = 0 /\ s # <<>> -> out = << <<s, Tenths(10)>> >>
         [] Colons(s) = 1 ->
                /\ Len(out) = 1
                /\ out[1][1] = term
                /\ IsNone(w) => out[1][2] = Tenths(10)
                /\ ~IsNone(w) /\ Val(w).kind # "nan" =>
                       out[1][2] = Nearest(Val(w))
         [] OTHER -> TRUE

\* C31: every weight parse_weighted_keywords returns lies within [0.1, 5.0];
\* a term written without a weight or with a weight that is no number gets
\* 1.0, a number outside the range becomes the nearest bound
C31_WeightRange ==
    ~IsNone(ret) =>
        LET input == Val(arg).keywords_input
            out == Val(ret)
        IN /\ \A k \in 1..Len(out) : InRange(out[k][2])
           /\ Colons(input) <= 1 /\ ~Contains(input, <<",">>) =>
                  ItemAsClaimed(input, out)

\* "ai:5.01,ai:0.05" has been parsed: one weight above and one below the
\* range, both clamped
C31_Witness ==
    /\ ~IsNone(ret)
    /\ Val(arg).keywords_input =
           KwAi \o <<":", "5", ".", "0", "1", ",">> \o KwAi
                \o <<":", "0", ".", "0", "5">>
    /\ Val(ret) = << <<KwAi, Tenths(50)>>, <<KwAi, Tenths(1)>> >>

-----------------------------------------------------------------------------
(* Properties of the drain's pace (under SpecQueue) *)

\* this step takes a new batch from the queue
PullsBatch == batch' # batch /\ batch' # <<>>

\* in this step _send_batch calls send_message for an item
BeginsSend ==
    /\ qpc' = "sending"
    /\ qpc # "sending" \/ batch' # batch \/ bi' # bi

\* C32: a drain iteration takes at most batch_size items, from the head of
\* the queue; sends are made one at a time and in the order of the batch: a
\* send begins only when no other is in progress, and the item before it
\* in the batch has had its attempt, recorded if it succeeded
C32_RateLimitedDrain ==
    [][/\ PullsBatch => /\ Len(batch') <= batch_size
                        /\ queue = batch' \o queue'
                        /\ bi' = 1
       /\ BeginsSend =>
              /\ qpc = "sending" => SendFailed
              /\ ~PullsBatch =>
                     /\ bi' = bi + 1
                     /\ \/ SendFailed
                        \/ /\ qpc = "item_sleep"
                           /\ Count(okSends, CurKey) > 0
                           /\ Recorded(CurKey)]_vars

\* more items are queued than one batch takes: a full batch is under way,
\* its first item sent and recorded, its second being sent, the rest queued
C32_Witness ==
    /\ batch_size = MaxBatchSize
    /\ Len(batch) = batch_size
    /\ queue # <<>>
    /\ qpc = "sending"
    /\ bi = 2
    /\ Recorded(KeyOf(batch[1]))

-----------------------------------------------------------------------------
(* Properties of the retention purge (under SpecPurge) *)

\* this step is the call of cleanup_old_news
Purges == arg' # arg

\* the purge with the records older than `cutoff` as the ones to remove
PurgeAt(cutoff) ==
    LET old == {r \in sent_news : r.sent_at < cutoff}
    IN /\ sent_news' = sent_news \ old
       /\ ret' = Some(Cardinality(old))
       /\ \A r \in old : ~is_news_sent(sent_news', r.user_id, r.news_hash)

\* on the clock of the host the purge is as described
PurgeByHostClock ==
    [][Purges => PurgeAt(now' + utc_offset - Val(arg').days)]_vars

\* C33: cleanup_old_news(days) removes exactly the records sent earlier than
\* days before now, keeps the others as they are, returns the number of
\* records removed, and a removed (subscriber, key) is not seen any more
C33_RetentionPurge ==
    [][Purges => PurgeAt(now' - Val(arg').days)]_vars

-----------------------------------------------------------------------------
(* Properties of an abandoned check cycle (under SpecAbandon) *)

\* a queue entry with everything _send_batch reads
Complete(item) ==
    /\ {"user_id", "news_item"} \subseteq DOMAIN item
    /\ {"message", "analysis", "hash"} \subseteq DOMAIN item.news_item
    /\ {"text", "channel", "id"} \subseteq DOMAIN item.news_item.message
    /\ item.news_item.hash # <<>>
    /\ item.news_item.analysis.relevant

\* the channels cycle t has gone through, the one it is at included
ChannelsSoFar(t) ==
    {lstrip_at(user_channels(cyc[t].user)[k]) : k \in 1..cyc[t].i}

\* C34: a step of a check cycle writes neither the table sent_news nor the
\* state of the drain loop; beside cache entries its only effect is that all
\* the news found in one channel is appended to the queue as complete
\* entries.  A cycle abandoned at an await changes nothing in that step and
\* takes no step afterwards, so every entry in the queue is complete and no
\* channel the cycle has not reached has an entry there.
C34_AbandonLeavesStateSound ==
    /\ [][\A t \in Tasks : cyc'[t] # cyc[t] =>
             /\ cyc[t].pc # "cancelled"
             /\ UNCHANGED <<sent_news, markCalls, stats, processing, qpc, batch,
                            bi, sent_count, okSends, failSends>>
             /\ Take(queue', Len(queue)) = queue
             /\ Len(Enqueued) = ev'.n
             /\ \A j \in 1..Len(Enqueued) :
                    /\ Complete(Enqueued[j])
                    /\ Enqueued[j].user_id = cyc'[t].user
                    /\ Enqueued[j].news_item.message.channel
                           = lstrip_at(Processed(t))
             /\ cyc'[t].pc = "cancelled" => UNCHANGED <<queue, cache>>
      ]_vars
    /\ [](\A j \in 1..Len(queue) :
             /\ Complete(queue[j])
             /\ queue[j].news_item.message.channel \in ChannelsSoFar(1))

\* the cycle was abandoned after its second channel: the news of the first
\* channel has been delivered and recorded by the drain loop, the third
\* channel was not reached and has no entry anywhere
C34_Witness ==
    /\ cyc[1].pc = "cancelled"
    /\ cyc[1].i = 2
    /\ Recorded(<<3, HashDot>>)
    /\ ~InQueue(3, HashAir)
    /\ ~Recorded(<<3, HashAir>>)

-----------------------------------------------------------------------------
(* Properties of the queue as a channel (under SpecQueueFair) *)

\* the entries taken from the queue whose send has not ended yet
InHand ==
    CASE qpc = "sending" -> SubSeq(batch, bi, Len(batch))
      [] qpc = "item_sleep" -> SubSeq(batch, bi + 1, Len(batch))
      [] OTHER -> <<>>

\* the entries with key p that still wait for their send to end
Waiting(p) ==
    LET s == queue \o InHand
    IN Cardinality({j \in 1..Len(s) : KeyOf(s[j]) = p})

\* the sends made for key p, successful or not
Attempts(p) == Count(okSends, p) + Count(failSends, p)

AllKeys ==
    {KeyOf(queue[j]) : j \in 1..Len(queue)}
        \cup {KeyOf(batch[j]) : j \in 1..Len(batch)} \cup Keys

\* C35: the queue neither loses nor repeats an item.  While the drain loop
\* runs, every entry put into the queue is eventually taken out and sent;
\* a step of the loop that ends one entry's wait is one send of that entry
\* (so no entry leaves without an attempt and none gets a second one), and
\* only add_news_batch makes entries wait
C35_NoLossNoRepeat ==
    /\ (qpc # "init" /\ queue \o InHand # <<>>)
           ~> (queue \o InHand = <<>> \/ ~processing)
    /\ [][tags' = tags =>
             \A p \in AllKeys \cup AllKeys' :
                 /\ Waiting(p)' + Attempts(p)' = Waiting(p) + Attempts(p)
                 /\ Attempts(p)' \in {Attempts(p), Attempts(p) + 1}]_vars

\* two batches were queued and the running loop has sent every entry: five
\* sends, one of them failed, nothing waits
C35_Witness ==
    /\ processing
    /\ tags = MaxAdds
    /\ queue \o InHand = <<>>
    /\ Total(okSends) + Total(failSends) >= 5
    /\ Total(failSends) = 1

-----------------------------------------------------------------------------
(* Dedup records are per subscriber (under Spec) *)

HashesOf(db) == {r.news_hash : r \in db}

\* C36: a step that records key k for subscriber A changes is_news_sent
\* for no other subscriber, whatever the key; a message recorded for A is
\* still found new, enqueued and delivered for B
C36_RecordsPerSubscriber ==
    [][sent_news' # sent_news =>
          \A B \in Users \ {CurItem.user_id} :
              \A k \in HashesOf(sent_news') \cup {HashAir} :
                  is_news_sent(sent_news', B, k) = is_news_sent(sent_news, B, k)
      ]_vars

\* the same message has been delivered to both subscribers, once each, and
\* is recorded for both
C36_Witness ==
    /\ Recorded(<<1, HashAir>>)
    /\ Recorded(<<2, HashAir>>)
    /\ Count(okSends, <<1, HashAir>>) = 1
    /\ Count(okSends, <<2, HashAir>>) = 1

-----------------------------------------------------------------------------
(* Failed fetches and the cache (under SpecCache) *)

\* in this step a fetch_channel call ends without content: fetch_with_retry
\* returned None or raised
FailedFetch == cres'.op = "fetched" /\ cres'.data = <<>>

\* a fetch_channel call for the channel of the last call, made now or at
\* any later time with the cache as it is, sends a request
NextFetchRequests ==
    \A d \in 0..(MaxClock - now) :
        ~fetch_channel_begin(cache, NameOfKey(cres.key), TRUE, now + d).returned

\* C37 as stated: a fetch_channel call that ends without content leaves
\* the cache as it was, and the next fetch of the channel goes to the
\* network
C37_FailedFetchThenNetwork ==
    [][FailedFetch => cache' = cache /\ NextFetchRequests']_vars

\* C37: a fetch_channel call that ends without content leaves the cache as
\* it was: no entry is created or overwritten; the next fetch of the channel
\* goes to the network unless the cache holds an entry of the channel that
\* another, successful fetch has stored
C37_FailedFetchStoresNothing ==
    [][FailedFetch =>
          /\ cache' = cache
          /\ ~HasKey(cache', cres'.key) => NextFetchRequests']_vars

\* a fetch that used the cache has ended without content, nothing is cached
\* for its channel and the next fetch of it will send a request
C37_Witness ==
    /\ cres.op = "fetched"
    /\ cres.data = <<>>
    /\ cres.use_cache
    /\ cache # <<>>
    /\ ~HasKey(cache, cres.key)
    /\ NextFetchRequests

-----------------------------------------------------------------------------
(* Properties of the weights in the check cycle (under SpecKeywords) *)

\* the input text with the weights taken away: "war:5, ai:0.1" is "war,ai"
RECURSIVE JoinTerms(_)
JoinTerms(items) ==
    IF items = <<>> THEN <<>>
    ELSE Split(Strip(Head(items)), ":")[1]
             \o (IF Len(items) > 1 THEN <<",">> ELSE <<>>)
             \o JoinTerms(Tail(items))
WithoutWeights(text) == JoinTerms(Split(text, ","))

\* the queue a cycle over the page of `channel` leaves after the input
QueueAfter(text, channel) ==
    add_news_batch(<<>>, 1,
                   FoundNewsWith([keywords |->
                                      process_weighted_keywords_input(
                                          DEFAULT_KEYWORDS, text),
                                  negative |-> <<>>],
                                 1, channel, pages(channel), {},
                                 MaxTime + utc_offset),
                   1)

-----------------------------------------------------------------------------
(* C39 *)

\* the entries a step of a check cycle puts on the queue (under SpecFresh
\* nothing is taken from the queue)
CycleEntries == SubSeq(queue', Len(queue) + 1, Len(queue'))
EntryMessage(entry) == entry.news_item.message

\* every entry the step enqueues holds a message with a timestamp later
\* than cutoff
EnqueuedAfter(cutoff) ==
    \A k \in 1..Len(CycleEntries) :
       /\ ~IsNone(EntryMessage(CycleEntries[k]).timestamp)
       /\ Val(EntryMessage(CycleEntries[k]).timestamp) > cutoff

\* the messages of the entries of one step, taken in the order in which the
\* filter returned them (pos), are newest first
EnqueuedNewestFirst ==
    \A k1, k2 \in 1..Len(CycleEntries) :
       CycleEntries[k1].pos < CycleEntries[k2].pos
           => TimeKey(EntryMessage(CycleEntries[k1])) >= TimeKey(EntryMessage(CycleEntries[k2]))

C39_FreshOnHostClock ==
    [][EnqueuedAfter(now + utc_offset - hours) /\ EnqueuedNewestFirst]_vars

\* a cycle has enqueued two messages of one channel on a host west of UTC
C39_TwoEnqueuedWestOfUtc ==
    /\ utc_offset < 0
    /\ \E k1, k2 \in 1..Len(queue) :
          /\ k1 # k2
          /\ queue[k1].tag = queue[k2].tag

====
